---- MODULE Spec2Model ----
(***************************************************************************)
(* A model of the RAG system's cache tier (app/utils/cache_service.py),    *)
(* of the generation client's retry loop (app/services/llm/llm_service.py) *)
(* and of the ingest / query / delete orchestration                        *)
(* (app/services/rag/rag_service.py).                                      *)
(*                                                                         *)
(* Three specifications share the module's variables:                      *)
(*   SpecCache  one TTLCache tier driven by arbitrary operations;          *)
(*   SpecLLM    one chat_completion call against an arbitrary backend;     *)
(*   Spec       concurrent queries, ingests and deletes on the event loop. *)
(***************************************************************************)
EXTENDS Integers, Sequences, FiniteSets, Bags, TLC

\* ------------------------------------------------------------------------
\* Bounds of the model
\* ------------------------------------------------------------------------
MaxTime == 1        \* the clock of SpecCache runs over 0..MaxTime
MaxKeys == 2        \* tiers are configured with max_keys in 0..MaxKeys
MaxInFlight == 2    \* calls of Spec suspended at an await at the same time
NumIngests == 1     \* ingest_document calls of Spec that reach the embedding
MaxPassages == 5    \* candidates handed to rerank_chunks in SpecRerank
MaxTopN == 2        \* top_n of SpecRerank runs over None and 1..MaxTopN,
                    \* top_k of SpecQuery over 1..MaxTopN
MaxQueries == 2     \* query_documents calls of a SpecQuery session
MaxTokens == 3      \* tokens of the text parse_confidence gets in SpecParse
MaxWords == 3       \* words of the text chunk_text gets in SpecChunk
MaxSize == 6        \* chunk_size and chunk_overlap of SpecChunk run up to it
MaxTexts == 3       \* texts handed to generate_embeddings_batched in SpecEmbed
MaxChunks == 3      \* chunks handed to create_chunk_metadata in SpecMetadata

\* None, Python's absent value (a cache miss).
None == "None"

\* The keys and values SpecCache draws from: one key more than the largest
\* max_keys, so that every capacity is overrun.
CacheKeys == {1, 2, 3}
CacheValues == {"a", "b"}

\* The default_ttl a tier is configured with, and the ttl argument of set
\* (0: the argument is None or 0, and set falls back to default_ttl).
DefaultTTLs == {0, 2}
TTLArgs == {0, 1}

VARIABLES
    \* --- one TTLCache instance (SpecCache) ---
    store,          \* TTLCache._store: the dict in insertion order, a sequence
                    \* of [key, value, exp]
    max_keys,       \* TTLCache.max_keys
    default_ttl,    \* TTLCache.default_ttl
    now,            \* time.time()
    last,           \* the operation that ran last and what it returned
    \* --- one chat_completion call (SpecLLM) ---
    attempt,        \* the loop variable of chat_completion
    llm_pc,         \* "loop" | "returned" | "failed" | "raised"
    responses,      \* the outcome of every backend call made so far
    sleeps,         \* the delay of every asyncio.sleep so far, in ms
    last_error,     \* chat_completion's last_error
    llm_result,     \* what the call returned or raised
    \* --- the orchestrator and its process-wide singletons (Spec) ---
    index,          \* the vector index: the chunks stored, as [doc, batch]
    queryStore,     \* _query_cache._store
    embStore,       \* _embedding_cache._store
    qry,            \* the query_documents calls suspended at an await, a bag
    ing,            \* the document ids of the suspended ingest_document calls
    uploads,        \* how many ingest_document calls have drawn a document id
    returned,       \* the call that returned in the last step, and its result
    \* --- one rerank_chunks call (SpecRerank) ---
    rr_args,        \* the arguments: query, top_n, vector_weight, keyword_weight
    rr_chunks,      \* the list passed as chunks, which the call may mutate
    rr_out,         \* whether the call has returned, and the list it returned
    \* --- a client asking one question repeatedly (SpecQuery) ---
    asked,          \* the question: query, top_k, document_id, rerank
    nqueries,       \* the query_documents calls made
    qlog,           \* what the last query_documents call did
    answered,       \* history: the scopes in which a call without
                    \* verification has answered the question (SpecAsk)
    \* --- the requests in flight on the event loop (SpecLoop) ---
    tasks,          \* every request: where it stands, and the locals of
                    \* the TTLCache method it is in
    current,        \* the request the loop thread ran last
    completed,      \* the TTLCache method that returned in the last step
    fault,          \* the exception a TTLCache method raised, if any
    \* --- one parse_confidence call or short-circuit response (SpecParse) ---
    raw_answer,     \* the text the generation backend returned
    parsed,         \* the answer and the confidence object of the response
    \* --- one chunk_text call and the ingest that makes it (SpecChunk) ---
    ck_args,        \* the arguments: text, chunk_size, chunk_overlap
    ck_out,         \* what chunk_text returned, and what ingest_document did
    ck_run,         \* the locals of a chunk_text call taken turn by turn
    \* --- one compare_documents call (SpecCompare) ---
    cmp_args,       \* the arguments: document_ids, structured
    cmp_out,        \* what the call returned or raised, and the calls it made
    \* --- one verified query_documents call (SpecVerify) ---
    vf_args,        \* the request, and the text the verification call gets
    vf_out,         \* what the call returned or raised
    \* --- one generate_embeddings_batched call (SpecEmbed) ---
    eb_args,        \* the arguments: texts, batch_size
    eb_out,         \* the list returned, and the generator calls made
    \* --- one create_chunk_metadata call (SpecMetadata) ---
    md_args,        \* the arguments: chunks, document_id, filename
    md_out          \* the records returned

cacheVars == <<store, max_keys, default_ttl, now, last>>
llmVars == <<attempt, llm_pc, responses, sleeps, last_error, llm_result>>
ragVars == <<index, queryStore, embStore, qry, ing, uploads, returned>>
rerankVars == <<rr_args, rr_chunks, rr_out>>
sessionVars == <<asked, nqueries, qlog, answered>>
loopVars == <<tasks, current, completed, fault>>
parseVars == <<raw_answer, parsed>>
chunkVars == <<ck_args, ck_out, ck_run>>
compareVars == <<cmp_args, cmp_out>>
verifyVars == <<vf_args, vf_out>>
embedVars == <<eb_args, eb_out>>
metaVars == <<md_args, md_out>>
finalVars == <<verifyVars, embedVars, metaVars>>
laterVars == <<parseVars, chunkVars, compareVars, finalVars>>
extVars == <<rerankVars, sessionVars, loopVars, laterVars>>
vars == <<cacheVars, llmVars, ragVars, extVars>>

\* ------------------------------------------------------------------------
\* TTLCache (cache_service.py 24-70), as operators on the dict
\* ------------------------------------------------------------------------

\* The keys of a dict.
StoreKeys(s) == {s[i].key : i \in 1..Len(s)}

\* Position of key k in the dict, 0 when absent (self._store.get(key)).
IndexOfKey(s, k) ==
    IF k \in StoreKeys(s) THEN CHOOSE i \in 1..Len(s) : s[i].key = k ELSE 0

\* IsExpired with the comparison off by one.
IsExpiredLate(exp, t) == t > exp + 1

\* The expiry test of get and _evict_expired: time.time() > expires_at.
IsExpired(exp, t) == t > exp

\* The dict without position i (del self._store[key]).
RemoveAt(s, i) == [j \in 1..(Len(s) - 1) |-> IF j < i THEN s[j] ELSE s[j + 1]]

\* TTLCache._evict_expired: delete every entry with now > exp.
EvictExpired(s, t) == SelectSeq(s, LAMBDA e : ~IsExpired(e.exp, t))

\* The keys _evict_expired deletes.
ExpiredKeys(s, t) == {s[i].key : i \in {j \in 1..Len(s) : IsExpired(s[j].exp, t)}}

\* TTLCache.get: the value and the dict afterwards (an expired entry is
\* deleted on the way).  hit: the value returned is not None.
TTLGet(s, k, t) ==
    LET i == IndexOfKey(s, k) IN
    IF i = 0 THEN [hit |-> FALSE, value |-> None, exp |-> -1, store |-> s]
    ELSE IF IsExpired(s[i].exp, t)
         THEN [hit |-> FALSE, value |-> None, exp |-> s[i].exp, store |-> RemoveAt(s, i)]
         ELSE [hit |-> TRUE, value |-> s[i].value, exp |-> s[i].exp, store |-> s]

\* The expiry set stores: time.time() + (ttl or self.default_ttl).
\* ttl = 0 stands for both None and 0, which `or` treats alike.
ExpiryOf(t, ttl, dttl) == t + (IF ttl = 0 THEN dttl ELSE ttl)

\* self._store[key] = entry: an existing key keeps its place in the dict,
\* a new key goes to the end.
DictAssign(s, e) ==
    LET i == IndexOfKey(s, e.key) IN
    IF i = 0 THEN Append(s, e) ELSE [s EXCEPT ![i] = e]

\* AtCapacity with > for >=.
AtCapacityStrict(s, maxk) == Len(s) > maxk

\* The capacity test of set: len(self._store) >= self.max_keys.
AtCapacity(s, maxk) == Len(s) >= maxk

\* EvictOldest that deletes the newest key instead.
EvictNewest(s) == SubSeq(s, 1, Len(s) - 1)

\* oldest_key = next(iter(self._store)); del self._store[oldest_key].
EvictOldest(s) == Tail(s)

\* TTLCache.set.  swept: how many entries the expired sweep deleted;
\* evicted: how many the capacity eviction deleted; raised: next(iter({}))
\* on an empty dict raises StopIteration before anything is stored.
TTLSet(s, k, v, ttl, t, maxk, dttl) ==
    LET sweep == AtCapacity(s, maxk)
        s1 == IF sweep THEN EvictExpired(s, t) ELSE s
        full == AtCapacity(s1, maxk)
        raised == full /\ Len(s1) = 0
        s2 == IF full /\ ~raised THEN EvictOldest(s1) ELSE s1
        e == [key |-> k, value |-> v, exp |-> ExpiryOf(t, ttl, dttl)]
    IN [store |-> IF raised THEN s1 ELSE DictAssign(s2, e),
        swept |-> Len(s) - Len(s1), evicted |-> Len(s1) - Len(s2),
        raised |-> raised]

\* TTLCache.delete: self._store.pop(key, None).
TTLDelete(s, k) == SelectSeq(s, LAMBDA e : e.key # k)

\* TTLCache.flush: self._store.clear().
TTLFlush(s) == << >>

\* TTLCache.size: the sweep, then len.
TTLSize(s, t) == [value |-> Len(EvictExpired(s, t)), store |-> EvictExpired(s, t)]

\* What an operation leaves in `last`.
OpRecord(op, k, result, exp, swept, evicted, raised) ==
    [op |-> op, key |-> k, result |-> result, exp |-> exp,
     swept |-> swept, evicted |-> evicted, raised |-> raised]

NoOp == OpRecord("none", 0, None, -1, 0, 0, FALSE)

\* No tier under test (the other specifications).
CacheIdle ==
    /\ store = << >>
    /\ max_keys = 0
    /\ default_ttl = 0
    /\ now = 0
    /\ last = NoOp

\* No request in the orchestrator (the other specifications).
RagIdle ==
    /\ index = {}
    /\ queryStore = << >>
    /\ embStore = << >>
    /\ qry = EmptyBag
    /\ ing = {}
    /\ uploads = 0
    /\ returned = NoOp

\* rerank_chunks has not returned.
NotReturned == [returned |-> FALSE, result |-> << >>]

\* No rerank_chunks call under test (the other specifications).
RerankIdle ==
    /\ rr_args = None
    /\ rr_chunks = << >>
    /\ rr_out = NotReturned

\* No client session under test (the other specifications).
SessionIdle ==
    /\ asked = None
    /\ nqueries = 0
    /\ qlog = None
    /\ answered = {}

\* What a method that returned did: the _store when it was entered and when
\* it returned, the time, and what it returned.
Completion(t, op, key, begin, end, at, value, size) ==
    [task |-> t, op |-> op, key |-> key, begin |-> begin, end |-> end,
     at |-> at, value |-> value, size |-> size]

NoCompletion == Completion(0, "none", 0, << >>, << >>, 0, None, 0)

\* No event loop under test (the other specifications).
LoopIdle ==
    /\ tasks = << >>
    /\ current = 0
    /\ completed = NoCompletion
    /\ fault = None

\* No parse_confidence call under test (the other specifications).
ParseIdle ==
    /\ raw_answer = << >>
    /\ parsed = None

\* No chunk_text call under test (the other specifications).
ChunkIdle ==
    /\ ck_args = None
    /\ ck_out = None
    /\ ck_run = None

\* No compare_documents call under test (the other specifications).
CompareIdle ==
    /\ cmp_args = None
    /\ cmp_out = None

\* No verified query under test (the other specifications).
VerifyIdle ==
    /\ vf_args = None
    /\ vf_out = None

\* No generate_embeddings_batched call under test (the other specifications).
EmbedIdle ==
    /\ eb_args = None
    /\ eb_out = None

\* No create_chunk_metadata call under test (the other specifications).
MetaIdle ==
    /\ md_args = None
    /\ md_out = None

FinalIdle == VerifyIdle /\ EmbedIdle /\ MetaIdle

LaterIdle == ParseIdle /\ ChunkIdle /\ CompareIdle /\ FinalIdle

\* Nothing under test beside the tier, the generation client and the
\* orchestrator.
ExtIdle == RerankIdle /\ SessionIdle /\ LoopIdle /\ LaterIdle

\* ------------------------------------------------------------------------
\* chat_completion (llm_service.py 140-191)
\* ------------------------------------------------------------------------

\* RETRY_ATTEMPTS and RETRY_DELAY (config/llm.py 16-17).  Delays are counted
\* in milliseconds, so RETRY_DELAY = 1.0 s is 1000.
RETRY_ATTEMPTS == 3
RETRY_DELAY == 1000
MsPerSecond == 1000

\* What one client.post can come to.  kind "network": the call raised
\* (connection error, timeout); kind "status": a response arrived.  header is
\* the Retry-After header: "absent", "seconds" (a decimal integer, in
\* seconds) or "malformed" (an HTTP date, a fraction of a second: nothing
\* int() parses); body is FALSE when
\* resp.json()["choices"][0]["message"]["content"] raises.
Outcome(kind, status, header, seconds, body, text) ==
    [kind |-> kind, status |-> status, header |-> header, seconds |-> seconds,
     body |-> body, text |-> text]

Outcomes ==
    {Outcome("network", 0, "absent", 0, FALSE, "")}
    \cup {Outcome("status", 200, "absent", 0, TRUE, t) : t \in {"t1", "t2"}}
    \cup {Outcome("status", 200, "absent", 0, FALSE, "")}
    \cup {Outcome("status", st, "absent", 0, FALSE, "") : st \in {404, 429, 500, 503}}
    \cup {Outcome("status", 429, "seconds", sec, FALSE, "") : sec \in {0, 3}}
    \cup {Outcome("status", 429, "malformed", 0, FALSE, "")}

NoOutcome == Outcome("none", 0, "absent", 0, FALSE, "")

\* resp.raise_for_status() raises HTTPStatusError unless the status is 2xx.
IsSuccessStatus(status) == status >= 200 /\ status <= 299

\* The call returned normally: line 167 is reached and evaluates.
Succeeds(o) == o.kind = "status" /\ IsSuccessStatus(o.status) /\ o.body

\* The except httpx.HTTPStatusError clause is taken.
IsStatusError(o) == o.kind = "status" /\ ~IsSuccessStatus(o.status)

\* The except Exception clause is taken: the post raised, or the body of a
\* 2xx response could not be read.
IsOtherError(o) == ~Succeeds(o) /\ ~IsStatusError(o)

\* InLoop with one attempt too many.
InLoopOneMore(a) == a >= 1 /\ a <= RETRY_ATTEMPTS + 1

\* for attempt in range(1, RETRY_ATTEMPTS + 1): the attempts the loop makes.
InLoop(a) == a >= 1 /\ a <= RETRY_ATTEMPTS

\* int(x) of a delay: whole seconds, truncated.
IntSeconds(ms) == (ms \div MsPerSecond) * MsPerSecond

\* int(exc.response.headers.get("retry-after", RETRY_DELAY)), line 173.
\* int() of a header that is no decimal integer raises ValueError.
RetryAfterRaises(o) == o.header = "malformed"
RetryAfter(o) ==
    IF o.header = "seconds" THEN o.seconds * MsPerSecond
    ELSE IntSeconds(RETRY_DELAY)

\* Backoff with the exponent off by one.
BackoffDoubled(a) == RETRY_DELAY * (2 ^ a)

\* RETRY_DELAY * (2 ** (attempt - 1)), lines 178 and 187.
Backoff(a) == RETRY_DELAY * (2 ^ (a - 1))

\* ServerErrorRetried that also retries a 4xx.
AnyErrorRetried(status, a) == status >= 400 /\ a < RETRY_ATTEMPTS

\* The test of line 177: a 5xx is retried while attempts remain.
ServerErrorRetried(status, a) == status >= 500 /\ a < RETRY_ATTEMPTS

\* OtherErrorRetried that also waits after the last attempt.
OtherErrorRetriedAlways(a) == a <= RETRY_ATTEMPTS

\* The test of line 186: any other exception is retried while attempts remain.
OtherErrorRetried(a) == a < RETRY_ATTEMPTS

\* No chat_completion call in progress (the other specifications).
LLMIdle ==
    /\ attempt = 0
    /\ llm_pc = "idle"
    /\ responses = << >>
    /\ sleeps = << >>
    /\ last_error = NoOutcome
    /\ llm_result = None

\* chat_completion is entered: last_error = None, the loop starts at 1.
InitLLM ==
    /\ attempt = 1
    /\ llm_pc = IF InLoop(1) THEN "loop" ELSE "failed"
    /\ responses = << >>
    /\ sleeps = << >>
    /\ last_error = NoOutcome
    /\ llm_result = IF InLoop(1) THEN None ELSE "ExternalServiceError"
    /\ CacheIdle
    /\ RagIdle
    /\ ExtIdle

\* `continue` after asyncio.sleep(d): the next attempt, or, when the loop is
\* exhausted, raise ExternalServiceError (line 191).
Continue(d) ==
    /\ sleeps' = Append(sleeps, d)
    /\ attempt' = attempt + 1
    /\ llm_pc' = IF InLoop(attempt + 1) THEN "loop" ELSE "failed"
    /\ llm_result' = IF InLoop(attempt + 1) THEN None ELSE "ExternalServiceError"

\* `break`, then raise ExternalServiceError (line 191).
Break ==
    /\ llm_pc' = "failed"
    /\ llm_result' = "ExternalServiceError"
    /\ UNCHANGED <<sleeps, attempt>>

\* One pass of the loop body whose call returns the response text.
AttemptSucceeds(o) ==
    /\ llm_pc = "loop"
    /\ Succeeds(o)
    /\ responses' = Append(responses, o)
    /\ llm_pc' = "returned"
    /\ llm_result' = o.text
    /\ UNCHANGED <<attempt, sleeps, last_error>>
    /\ UNCHANGED <<cacheVars, ragVars, extVars>>

\* One pass whose call ends in HTTPStatusError (lines 169-182).
AttemptStatusError(o) ==
    /\ llm_pc = "loop"
    /\ IsStatusError(o)
    /\ responses' = Append(responses, o)
    /\ last_error' = o
    /\ UNCHANGED <<cacheVars, ragVars, extVars>>
    /\ IF o.status = 429
       THEN IF RetryAfterRaises(o)
            THEN /\ llm_pc' = "raised"
                 /\ llm_result' = "ValueError"
                 /\ UNCHANGED <<sleeps, attempt>>
            ELSE Continue(RetryAfter(o))
       ELSE IF ServerErrorRetried(o.status, attempt)
            THEN Continue(Backoff(attempt))
            ELSE Break

\* One pass whose call ends in any other exception (lines 184-189).
AttemptOtherError(o) ==
    /\ llm_pc = "loop"
    /\ IsOtherError(o)
    /\ responses' = Append(responses, o)
    /\ last_error' = o
    /\ UNCHANGED <<cacheVars, ragVars, extVars>>
    /\ IF OtherErrorRetried(attempt)
       THEN Continue(Backoff(attempt))
       ELSE Break

NextLLM ==
    \/ \E o \in Outcomes : AttemptSucceeds(o)
    \/ \E o \in Outcomes : AttemptStatusError(o)
    \/ \E o \in Outcomes : AttemptOtherError(o)

SpecLLM == InitLLM /\ [][NextLLM]_vars

\* ------------------------------------------------------------------------
\* SpecCache: one tier, any sequence of operations and clock advances
\* ------------------------------------------------------------------------

\* TTLCache.__init__ with any configuration, at time 0.
InitCache ==
    /\ store = << >>
    /\ max_keys \in 0..MaxKeys
    /\ default_ttl \in DefaultTTLs
    /\ now = 0
    /\ last = NoOp
    /\ LLMIdle
    /\ RagIdle
    /\ ExtIdle

CacheGet(k) ==
    LET r == TTLGet(store, k, now) IN
    /\ store' = r.store
    /\ last' = OpRecord("get", k, r.value, r.exp, 0, 0, FALSE)
    /\ UNCHANGED <<max_keys, default_ttl, now>>
    /\ UNCHANGED <<llmVars, ragVars, extVars>>

CacheSet(k, v, ttl) ==
    LET r == TTLSet(store, k, v, ttl, now, max_keys, default_ttl) IN
    /\ store' = r.store
    /\ last' = OpRecord("set", k, None, -1, r.swept, r.evicted, r.raised)
    /\ UNCHANGED <<max_keys, default_ttl, now>>
    /\ UNCHANGED <<llmVars, ragVars, extVars>>

CacheDelete(k) ==
    /\ store' = TTLDelete(store, k)
    /\ last' = OpRecord("delete", k, None, -1, 0, 0, FALSE)
    /\ UNCHANGED <<max_keys, default_ttl, now>>
    /\ UNCHANGED <<llmVars, ragVars, extVars>>

CacheFlush ==
    /\ store' = TTLFlush(store)
    /\ last' = OpRecord("flush", 0, None, -1, 0, 0, FALSE)
    /\ UNCHANGED <<max_keys, default_ttl, now>>
    /\ UNCHANGED <<llmVars, ragVars, extVars>>

CacheSize ==
    LET r == TTLSize(store, now) IN
    /\ store' = r.store
    /\ last' = OpRecord("size", 0, r.value, -1, 0, 0, FALSE)
    /\ UNCHANGED <<max_keys, default_ttl, now>>
    /\ UNCHANGED <<llmVars, ragVars, extVars>>

\* The clock advances between two operations.
Tick ==
    /\ now < MaxTime
    /\ now' = now + 1
    /\ last' = NoOp
    /\ UNCHANGED <<store, max_keys, default_ttl>>
    /\ UNCHANGED <<llmVars, ragVars, extVars>>

NextCache ==
    \/ \E k \in CacheKeys : CacheGet(k)
    \/ \E k \in CacheKeys, v \in CacheValues, ttl \in TTLArgs : CacheSet(k, v, ttl)
    \/ \E k \in CacheKeys : CacheDelete(k)
    \/ CacheFlush
    \/ CacheSize
    \/ Tick

SpecCache == InitCache /\ [][NextCache]_vars

\* ------------------------------------------------------------------------
\* The orchestrator (rag_service.py) and its collaborators, on one event
\* loop: a handler runs without interruption from one await that suspends
\* to the next (embedding in the executor, the HTTP call of generation).
\* Spec runs within one TTL of the caches: its clock stands still.
\* ------------------------------------------------------------------------

\* QUERY_TTL, MAX_QUERY_KEYS, EMBEDDING_TTL, MAX_EMBEDDING_KEYS
\* (cache_service.py 17-21), in seconds and keys.
QUERY_TTL == 3600
MAX_QUERY_KEYS == 1000
EMBEDDING_TTL == 86400
MAX_EMBEDDING_KEYS == 10000

\* Document ids: the n-th ingest that draws an id stores document n (a fresh
\* uuid4); document 0 was stored by an earlier run of the server (the index
\* is persistent).
Docs == 0..NumIngests

\* document_id = None: the query is not scoped to a document.
NoDoc == -1

\* A document's chunks fill two store batches (of BATCH_SIZE chunks each).
Batches == {1, 2}

\* The requests the query route passes on (QueryRequest, validators.py
\* 16-24; routes/query.py 20-28 leaves skip_cache at its default): scoped to
\* no document or to the stored one, and verified only when unscoped.
QueryTexts == {"q1"}
TopKs == {1}
Scopes == {NoDoc, 0}
Requests ==
    {r \in [query : QueryTexts, top_k : TopKs, document_id : Scopes,
            rerank : {FALSE}, verify : BOOLEAN, skip_cache : {FALSE}] :
        r.verify => r.document_id = NoDoc}

\* _build_query_key with "all" in place of the document id.
BuildQueryKeyUnscoped(query, opts) ==
    [query |-> query, top_k |-> opts.top_k, document_id |-> NoDoc,
     rerank |-> opts.rerank]

\* _build_query_key: the fields hashed into the key; `document_id or "all"`
\* is NoDoc here.  md5 is taken to be injective on them.
BuildQueryKey(query, opts) ==
    [query |-> query, top_k |-> opts.top_k, document_id |-> opts.document_id,
     rerank |-> opts.rerank]

\* The key of a text in the embedding cache: "emb:" + md5(text).
EmbeddingKey(text) == text

\* The text of a query, and the chunk texts of the uploaded file (every
\* upload has the same content), as cache keys.
QueryText(query) == [kind |-> "query", id |-> query]
ChunkTexts == [kind |-> "chunks", id |-> "file"]

\* set_query_result that stores nothing.
SetQueryResultNever(s, query, opts, result, t) == s

\* cache_service.get_query_result / set_query_result on _query_cache.
GetQueryResult(s, query, opts, t) == TTLGet(s, BuildQueryKey(query, opts), t)
SetQueryResult(s, query, opts, result, t) ==
    TTLSet(s, BuildQueryKey(query, opts), result, 0, t, MAX_QUERY_KEYS, QUERY_TTL).store

\* cache_service.invalidate_queries with the flush left out.
InvalidateNothing(s) == s

\* cache_service.invalidate_queries: _query_cache.flush().
InvalidateQueries(s) == TTLFlush(s)

\* cache_service.invalidate_document_queries: the whole tier is flushed,
\* whatever the document.
InvalidateDocumentQueries(s, d) == TTLFlush(s)

\* cache_service.get_embedding / set_embedding on _embedding_cache.
GetEmbedding(s, text, t) == TTLGet(s, EmbeddingKey(text), t)
SetEmbedding(s, text, t) ==
    TTLSet(s, EmbeddingKey(text), "vector", 0, t, MAX_EMBEDDING_KEYS, EMBEDDING_TTL).store

\* The index answers nearest first; the distance order of the stored chunks
\* is fixed: the later document is the nearer, then the earlier batch.
Rank(c) == (NumIngests - c.doc) * 10 + c.batch

RECURSIVE NearestFirst(_)
NearestFirst(S) ==
    IF S = {} THEN << >>
    ELSE LET m == CHOOSE c \in S : \A d \in S : Rank(c) <= Rank(d)
         IN <<m>> \o NearestFirst(S \ {m})

FirstN(seq, n) == SubSeq(seq, 1, IF n < Len(seq) THEN n ELSE Len(seq))

\* vector_store_service.search_similar / search_by_document: the top_k
\* nearest chunks, of document d when d is given.
SearchSimilar(idx, d, k) ==
    FirstN(NearestFirst(IF d = NoDoc THEN idx ELSE {c \in idx : c.doc = d}), k)

\* fetch_k (rag_service.py 118).
FetchK(req) ==
    IF req.rerank THEN (IF req.top_k * 3 < 20 THEN req.top_k * 3 ELSE 20)
    ELSE req.top_k

\* rag_service.py 136-137: the results cut to top_k.
Truncate(results, top_k) == IF Len(results) > top_k THEN FirstN(results, top_k) ELSE results

\* What query_documents retrieves for req from index idx (117-137).
Retrieve(idx, req) == Truncate(SearchSimilar(idx, req.document_id, FetchK(req)), req.top_k)

\* The fixed response of a query that retrieved nothing (125-130).
NoDocumentsResponse ==
    [kind |-> "no_documents", sources |-> << >>, stale |-> FALSE,
     verified |-> FALSE]

\* The response assembled from the results (174-185): its sources and its
\* verification.  stale tells that an ingest or delete has returned since
\* the results were read, after which the same search retrieves something
\* else; it is kept for the responses that go to the cache.
BuildResponse(results, stale, verified) ==
    [kind |-> "answer", sources |-> results, stale |-> stale,
     verified |-> verified]

NoResponse ==
    [kind |-> "none", sources |-> << >>, stale |-> FALSE,
     verified |-> FALSE]

\* A suspended query_documents call: the await it stands at, its arguments,
\* the results it holds, and whether they are stale.
QueryCall(pc, req, results, stale) ==
    [pc |-> pc, req |-> req, results |-> results, stale |-> stale]

\* What a call handed back to its route when it returned: the handler, the
\* document_id of its request or result, the response and whether it came
\* from the cache, and the scopes of the cache entries it flushed.  ok is
\* FALSE when ingest_document raised out of store_chunks.
Returned(op, ok, doc, response, from_cache, flushed) ==
    [op |-> op, ok |-> ok, doc |-> doc, response |-> response,
     from_cache |-> from_cache, flushed |-> flushed]

\* The last step suspended a call, resumed one that suspended again, or
\* ended one with an exception before it had changed anything.
NothingReturned == Returned("none", FALSE, NoDoc, NoResponse, FALSE, {})

\* SkipCache without the `or verify`.
SkipCacheFlagOnly(req) == req.skip_cache

\* skip_cache = skip_cache or verify (line 100).
SkipCache(req) == req.skip_cache \/ req.verify

\* The calls suspended at an await.
InFlight == BagCardinality(qry) + Cardinality(ing)

\* The scopes of the entries of the query cache.
EntryScopes(s) == {s[i].key.document_id : i \in 1..Len(s)}

\* The suspended queries after the index has become idx with the return of
\* an ingest or delete: the results a call holds for a response it will
\* cache are stale when the search it made retrieves something else from idx.
MarkStale(bag, idx) ==
    LET mark(c) == IF c.pc = "generate" /\ ~SkipCache(c.req) /\ c.results # Retrieve(idx, c.req)
                   THEN [c EXCEPT !.stale = TRUE] ELSE c
    IN BagOfAll(mark, bag)

\* The server has started: empty caches, no request yet, and whatever an
\* earlier run left in the index.
InitRag ==
    /\ index = {[doc |-> 0, batch |-> 1]}
    /\ queryStore = << >>
    /\ embStore = << >>
    /\ qry = EmptyBag
    /\ ing = {}
    /\ uploads = 0
    /\ returned = NothingReturned
    /\ CacheIdle
    /\ LLMIdle
    /\ ExtIdle

\* query_documents from the search on (117-137), entered with the stores as
\* the steps before left them and the other suspended queries: the result is
\* empty and the fixed response is returned, or the call suspends in
\* generate_answer.
SearchAndContinue(req, qs, es, others) ==
    LET found == SearchSimilar(index, req.document_id, FetchK(req))
        results == Truncate(found, req.top_k)
    IN /\ queryStore' = qs
       /\ embStore' = es
       /\ IF found = << >>
          THEN /\ qry' = others
               /\ returned' = Returned("query", TRUE, req.document_id,
                                       NoDocumentsResponse, FALSE, {})
          ELSE /\ qry' = others (+) SetToBag({QueryCall("generate", req, results, FALSE)})
               /\ returned' = NothingReturned

\* query_documents is called (100-115): the cache check; on a hit the cached
\* dict is returned (its processing_time, overwritten in place, is not among
\* the fields kept here); on a miss the query is embedded, from the embedding
\* cache without suspending, or in the executor.
QueryStart(req) ==
    /\ InFlight < MaxInFlight
    /\ LET got == GetQueryResult(queryStore, req.query, req, now)
           hit == ~SkipCache(req) /\ got.hit
           qs == IF SkipCache(req) THEN queryStore ELSE got.store
           emb == GetEmbedding(embStore, QueryText(req.query), now)
       IN IF hit
          THEN LET served == got.value
               IN /\ queryStore' = qs
                  /\ returned' = Returned("query", TRUE, req.document_id, served, TRUE, {})
                  /\ UNCHANGED <<embStore, qry>>
          ELSE IF emb.hit
               THEN SearchAndContinue(req, qs, emb.store, qry)
               ELSE /\ queryStore' = qs
                    /\ embStore' = emb.store
                    /\ qry' = qry (+) SetToBag({QueryCall("embed", req, << >>, FALSE)})
                    /\ returned' = NothingReturned
    /\ UNCHANGED <<index, ing, uploads>>
    /\ UNCHANGED <<cacheVars, llmVars, extVars>>

\* A suspended call ends with an exception: ExternalServiceError from the
\* embedding generator or the generation backend.
QueryFails(c) ==
    /\ BagIn(c, qry)
    /\ qry' = qry (-) SetToBag({c})
    /\ returned' = NothingReturned
    /\ UNCHANGED <<index, queryStore, embStore, ing, uploads>>
    /\ UNCHANGED <<cacheVars, llmVars, extVars>>

\* generate_embedding resumes with the vector (50-53): it is cached, and the
\* query goes on to the search.
QueryEmbedded(c) ==
    /\ BagIn(c, qry)
    /\ c.pc = "embed"
    /\ SearchAndContinue(c.req, queryStore,
                         SetEmbedding(embStore, QueryText(c.req.query), now),
                         qry (-) SetToBag({c}))
    /\ UNCHANGED <<index, ing, uploads>>
    /\ UNCHANGED <<cacheVars, llmVars, extVars>>

\* query_documents from the response on (153-192): the response is built,
\* cached unless skip_cache, and returned.
Respond(c, verified) ==
    LET response == BuildResponse(c.results, c.stale, verified)
    IN /\ qry' = qry (-) SetToBag({c})
       /\ queryStore' = IF SkipCache(c.req) THEN queryStore
                        ELSE SetQueryResult(queryStore, c.req.query, c.req, response, now)
       /\ returned' = Returned("query", TRUE, c.req.document_id, response, FALSE, {})

\* generate_answer resumes with the answer (140-151): the call suspends
\* again in verify_answer when verify is set, and responds otherwise.
QueryGenerated(c) ==
    /\ BagIn(c, qry)
    /\ c.pc = "generate"
    /\ IF c.req.verify
       THEN /\ qry' = (qry (-) SetToBag({c})) (+) SetToBag({[c EXCEPT !.pc = "verify"]})
            /\ returned' = NothingReturned
            /\ UNCHANGED queryStore
       ELSE Respond(c, FALSE)
    /\ UNCHANGED <<index, embStore, ing, uploads>>
    /\ UNCHANGED <<cacheVars, llmVars, extVars>>

\* verify_answer resumes with the verification.
QueryVerified(c) ==
    /\ BagIn(c, qry)
    /\ c.pc = "verify"
    /\ Respond(c, TRUE)
    /\ UNCHANGED <<index, embStore, ing, uploads>>
    /\ UNCHANGED <<cacheVars, llmVars, extVars>>

\* ingest_document from store_chunks on (60-64), for document d.  written
\* batches are added before col.add raises; with every batch written the
\* query cache is invalidated and the call returns, otherwise
\* ExternalServiceError leaves the function before the invalidation.
StoreAndInvalidate(d, written, es, others) ==
    LET added == {[doc |-> d, batch |-> b] : b \in {b \in Batches : b <= written}}
        stored == \A b \in Batches : b <= written
        qs == IF stored THEN InvalidateQueries(queryStore) ELSE queryStore
    IN /\ index' = index \cup added
       /\ embStore' = es
       /\ queryStore' = qs
       /\ qry' = IF stored THEN MarkStale(qry, index \cup added) ELSE qry
       /\ ing' = others
       /\ returned' = Returned("ingest", stored, d, NoResponse, FALSE,
                               EntryScopes(queryStore) \ EntryScopes(qs))

\* ingest_document is called (37-57): it draws a document id, the document
\* is parsed and chunked, then embedded: from the embedding cache without
\* suspending when every chunk text is cached, in the executor otherwise.
IngestStart(written) ==
    /\ uploads < NumIngests
    /\ InFlight < MaxInFlight
    /\ uploads' = uploads + 1
    /\ LET d == uploads + 1
           emb == GetEmbedding(embStore, ChunkTexts, now)
       IN IF emb.hit
          THEN StoreAndInvalidate(d, written, emb.store, ing)
          ELSE /\ \A b \in Batches : b <= written
               /\ ing' = ing \cup {d}
               /\ embStore' = emb.store
               /\ returned' = NothingReturned
               /\ UNCHANGED <<index, queryStore, qry>>
    /\ UNCHANGED <<cacheVars, llmVars, extVars>>

\* ingest_document raises before it suspends: the document cannot be parsed
\* or yields no chunk (ValueError).
IngestRejected ==
    /\ returned' = NothingReturned
    /\ UNCHANGED <<index, queryStore, embStore, qry, ing, uploads>>
    /\ UNCHANGED <<cacheVars, llmVars, extVars>>

\* The embedding generator fails under a suspended ingest_document, which
\* raises with nothing stored.
IngestFails(d) ==
    /\ d \in ing
    /\ ing' = ing \ {d}
    /\ returned' = NothingReturned
    /\ UNCHANGED <<index, queryStore, embStore, qry, uploads>>
    /\ UNCHANGED <<cacheVars, llmVars, extVars>>

\* generate_embeddings_batched resumes (123-131): the new embeddings are
\* cached, and the chunks are stored.
IngestEmbedded(d, written) ==
    /\ d \in ing
    /\ StoreAndInvalidate(d, written, SetEmbedding(embStore, ChunkTexts, now),
                          ing \ {d})
    /\ UNCHANGED uploads
    /\ UNCHANGED <<cacheVars, llmVars, extVars>>

\* delete_document (274-277), which never suspends: the chunks of d are
\* deleted and the query cache is invalidated.
DeleteDocument(d) ==
    /\ LET kept == {c \in index : c.doc # d}
           qs == InvalidateDocumentQueries(queryStore, d)
       IN /\ index' = kept
          /\ queryStore' = qs
          /\ qry' = MarkStale(qry, kept)
          /\ returned' = Returned("delete", TRUE, d, NoResponse, FALSE,
                                  EntryScopes(queryStore) \ EntryScopes(qs))
    /\ UNCHANGED <<embStore, ing, uploads>>
    /\ UNCHANGED <<cacheVars, llmVars, extVars>>

\* delete_document, of any document, when col.delete raises:
\* ExternalServiceError leaves the function before the invalidation, with
\* nothing changed.
DeleteFails ==
    /\ returned' = NothingReturned
    /\ UNCHANGED <<index, queryStore, embStore, qry, ing, uploads>>
    /\ UNCHANGED <<cacheVars, llmVars, extVars>>

Next ==
    \/ \E req \in Requests : QueryStart(req)
    \/ \E c \in BagToSet(qry) : QueryEmbedded(c)
    \/ \E c \in BagToSet(qry) : QueryGenerated(c)
    \/ \E c \in BagToSet(qry) : QueryVerified(c)
    \/ \E c \in BagToSet(qry) : QueryFails(c)
    \/ \E w \in {0} \cup Batches : IngestStart(w)
    \/ \E d \in ing, w \in {0} \cup Batches : IngestEmbedded(d, w)
    \/ \E d \in ing : IngestFails(d)
    \/ IngestRejected
    \/ \E d \in Docs : DeleteDocument(d)
    \/ DeleteFails

Spec == InitRag /\ [][Next]_vars

\* ------------------------------------------------------------------------
\* rerank_chunks (rerank_service.py 15-117).  Scores are fixed-point numbers
\* in units of 1/Scale, the four decimals the code rounds to.
\* ------------------------------------------------------------------------

\* round(x, 4): one unit is 0.0001.
Scale == 10000

\* The passages and queries the re-ranker is applied to are sequences of the
\* words re.findall(r"\b\w+\b", text) finds in them.
Words == {"a", "Rag", "rag", "db"}

\* str.lower on a word.
Lower(w) == IF w = "Rag" THEN "rag" ELSE w

\* _tokenize that keeps the one-letter words.
TokenizeKeepShort(text) == [i \in 1..Len(text) |-> Lower(text[i])]

\* _tokenize (81-83): the words longer than one character, lowercased.
Tokenize(text) ==
    LET kept == SelectSeq(text, LAMBDA w : Len(w) > 1)
    IN [i \in 1..Len(kept) |-> Lower(kept[i])]

\* The elements of a sequence.
Range(s) == {s[i] : i \in 1..Len(s)}

\* Counter(doc_tokens).get(term, 0).
Count(tokens, term) == Cardinality({i \in 1..Len(tokens) : tokens[i] = term})

\* doc_freq (47-51): for each token of the candidate set, the number of
\* chunks whose text has it.
DocFreq(chunks) ==
    LET tokensOf(i) == Range(Tokenize(chunks[i].text))
    IN [t \in UNION {tokensOf(i) : i \in 1..Len(chunks)} |->
            Cardinality({i \in 1..Len(chunks) : t \in tokensOf(i)})]

\* doc_freq.get(term, 0).
DocFreqGet(doc_freq, term) == IF term \in DOMAIN doc_freq THEN doc_freq[term] ELSE 0

\* math.log(k) for k = 1..20, in units of 1/Scale.
LnScaled ==
    <<0, 6931, 10986, 13863, 16094, 17918, 19459, 20794, 21972, 23026,
      23979, 24849, 25649, 26391, 27081, 27726, 28332, 28904, 29444, 29957>>

\* idf (111): log((n_docs - df + 0.5) / (df + 0.5) + 1.0), which is
\* log((2 n_docs + 2) / (2 df + 1)).
Idf(n_docs, df) == LnScaled[2 * n_docs + 2] - LnScaled[2 * df + 1]

\* tf_norm (112) with k1 = 1.5, b = 0.75, avg_dl = 200.0:
\* 2.5 tf / (tf + 0.375 + 0.005625 dl), numerator and denominator times 1600.
TfNorm(tf, dl) == (4000 * tf * Scale) \div (1600 * tf + 600 + 9 * dl)

\* The sum of f[1] .. f[n].
RECURSIVE SumOver(_, _)
SumOver(f, n) == IF n = 0 THEN 0 ELSE f[n] + SumOver(f, n - 1)

\* _bm25_score with the normalised score left unclamped.
Bm25ScoreUnclamped(query_terms, doc_text, doc_freq, n_docs) ==
    LET doc_tokens == Tokenize(doc_text)
        dl == Len(doc_tokens)
        term(i) ==
            LET tf == Count(doc_tokens, query_terms[i])
                df == DocFreqGet(doc_freq, query_terms[i])
            IN IF tf = 0 \/ df = 0 THEN 0
               ELSE (Idf(n_docs, df) * TfNorm(tf, dl)) \div Scale
        score == SumOver([i \in 1..Len(query_terms) |-> term(i)], Len(query_terms))
        max_possible == Len(query_terms) * 3
    IN IF dl = 0 THEN 0
       ELSE IF max_possible > 0 THEN score \div max_possible ELSE 0

\* _bm25_score (86-117): the sum of idf * tf_norm over the query terms the
\* text has, divided by 3.0 * len(query_terms) and clamped to 1.0.
Bm25Score(query_terms, doc_text, doc_freq, n_docs) ==
    LET doc_tokens == Tokenize(doc_text)
        dl == Len(doc_tokens)
        term(i) ==
            LET tf == Count(doc_tokens, query_terms[i])
                df == DocFreqGet(doc_freq, query_terms[i])
            IN IF tf = 0 \/ df = 0 THEN 0
               ELSE (Idf(n_docs, df) * TfNorm(tf, dl)) \div Scale
        score == SumOver([i \in 1..Len(query_terms) |-> term(i)], Len(query_terms))
        max_possible == Len(query_terms) * 3
    IN IF dl = 0 THEN 0
       ELSE IF max_possible > 0
            THEN (IF score \div max_possible < Scale THEN score \div max_possible ELSE Scale)
            ELSE 0

\* round(combined, 4) of combined in units of 1/Scale^2.
Round4(x) == (x + Scale \div 2) \div Scale

\* combined (62), rounded as in line 65.
Combined(vector_weight, vec_score, keyword_weight, kw_score) ==
    Round4(vector_weight * vec_score + keyword_weight * kw_score)

\* The dict appended to scored (63-68) for the chunk at 0-based index rank.
Scored(chunk, rank, rerank_score, keyword_score) ==
    [chunk_id |-> chunk.chunk_id, text |-> chunk.text,
     similarity_score |-> chunk.similarity_score,
     rerank_score |-> rerank_score, keyword_score |-> keyword_score,
     original_rank |-> rank + 1]

\* The first position of s whose rerank_score is the greatest.
FirstMax(s) ==
    CHOOSE i \in 1..Len(s) :
        /\ \A j \in 1..Len(s) : s[j].rerank_score <= s[i].rerank_score
        /\ \A j \in 1..(i - 1) : s[j].rerank_score < s[i].rerank_score

\* The last position of s whose rerank_score is the greatest.
LastMax(s) ==
    CHOOSE i \in 1..Len(s) :
        /\ \A j \in 1..Len(s) : s[j].rerank_score <= s[i].rerank_score
        /\ \A j \in (i + 1)..Len(s) : s[j].rerank_score < s[i].rerank_score

\* An unstable sort: among equal keys the later element comes first.
RECURSIVE SortDescendingUnstable(_)
SortDescendingUnstable(s) ==
    IF s = << >> THEN << >>
    ELSE <<s[LastMax(s)]>> \o SortDescendingUnstable(RemoveAt(s, LastMax(s)))

\* scored.sort(key=rerank_score, reverse=True) (71): list.sort is stable,
\* also with reverse=True.
RECURSIVE SortDescending(_)
SortDescending(s) ==
    IF s = << >> THEN << >>
    ELSE <<s[FirstMax(s)]>> \o SortDescending(RemoveAt(s, FirstMax(s)))

\* top_n = None (18): no top_n is given.
NoTopN == -1

\* TopNApplies that never cuts.
TopNIgnored(top_n, n) == FALSE

\* `top_n and top_n < len(scored)` (73): None and 0 are both falsy.
TopNApplies(top_n, n) == top_n # NoTopN /\ top_n # 0 /\ top_n < n

\* Lines 73-74.
TruncateTopN(scored, top_n) ==
    IF TopNApplies(top_n, Len(scored)) THEN FirstN(scored, top_n) ELSE scored

\* Single with the default of the get, 1.0, for the score.
SingleDefaultScore(chunk) ==
    [chunk_id |-> chunk.chunk_id, text |-> chunk.text,
     similarity_score |-> chunk.similarity_score,
     rerank_score |-> Scale, original_rank |-> 1]

\* Lines 38-39: the only chunk gets its similarity_score as rerank_score
\* and original_rank 1.
Single(chunk) ==
    [chunk_id |-> chunk.chunk_id, text |-> chunk.text,
     similarity_score |-> chunk.similarity_score,
     rerank_score |-> chunk.similarity_score, original_rank |-> 1]

\* rerank_chunks (15-76): what it returns, and the caller's list afterwards
\* (a single chunk is annotated in place; scored holds copies).
RerankChunks(query, chunks, top_n, vector_weight, keyword_weight) ==
    LET query_terms == Tokenize(query)
        doc_freq == DocFreq(chunks)
        n_docs == Len(chunks)
        scored == [i \in 1..Len(chunks) |->
            LET kw_score == Bm25Score(query_terms, chunks[i].text, doc_freq, n_docs)
            IN Scored(chunks[i], i - 1,
                      Combined(vector_weight, chunks[i].similarity_score,
                               keyword_weight, kw_score),
                      kw_score)]
        single == Single(chunks[1])
    IN IF chunks = << >> THEN [result |-> << >>, chunks |-> chunks]
       ELSE IF Len(chunks) = 1 THEN [result |-> <<single>>, chunks |-> <<single>>]
       ELSE IF query_terms = << >> THEN [result |-> chunks, chunks |-> chunks]
       ELSE [result |-> TruncateTopN(SortDescending(scored), top_n),
             chunks |-> chunks]

\* ------------------------------------------------------------------------
\* SpecRerank: rerank_chunks applied once to any of the inputs below
\* ------------------------------------------------------------------------

\* The texts and similarity scores of the candidates: a text that repeats
\* one token, a text with another token and a one-letter word, and a text
\* without any word; similarity 1 - distance in [0, 1].
PassageKinds ==
    {[text |-> <<"Rag", "rag", "rag">>, similarity_score |-> 2000],
     [text |-> <<"db", "a">>, similarity_score |-> Scale],
     [text |-> << >>, similarity_score |-> 0]}

\* The lists search_similar can hand over: chunk ids are unique in a list.
PassageLists ==
    UNION {{[i \in 1..n |-> [chunk_id |-> i, text |-> kinds[i].text,
                             similarity_score |-> kinds[i].similarity_score]] :
                kinds \in [1..n -> PassageKinds]} : n \in 0..MaxPassages}

\* Queries: without a word, with a one-letter word only, with one token,
\* with two tokens, with one token twice.
RerankQueries ==
    {<< >>, <<"a">>, <<"rag">>, <<"Rag", "db">>, <<"rag", "rag">>}

\* top_n: not given, or the top_k of a query, which is at least 1
\* (rag_service.py 135, validators.py 19).
TopNs == {NoTopN} \cup (1..MaxTopN)

\* vector_weight and keyword_weight in [0, 1], summing to 1.
Weights == {<<Scale \div 2, Scale \div 2>>, <<0, Scale>>}

\* The arguments of a rerank_chunks call beside chunks.
RerankArgs(query, top_n, w) ==
    [query |-> query, top_n |-> top_n, vector_weight |-> w[1],
     keyword_weight |-> w[2]]

\* A caller holds a list of candidates and is about to call rerank_chunks.
InitRerank ==
    /\ rr_chunks \in PassageLists
    /\ rr_args \in {RerankArgs(q, n, w) : q \in RerankQueries, n \in TopNs, w \in Weights}
    /\ rr_out = NotReturned
    /\ CacheIdle
    /\ LLMIdle
    /\ RagIdle
    /\ SessionIdle
    /\ LoopIdle
    /\ LaterIdle

\* The call is made and returns.
Rerank ==
    /\ ~rr_out.returned
    /\ LET r == RerankChunks(rr_args.query, rr_chunks, rr_args.top_n,
                             rr_args.vector_weight, rr_args.keyword_weight)
       IN /\ rr_out' = [returned |-> TRUE, result |-> r.result]
          /\ rr_chunks' = r.chunks
    /\ UNCHANGED rr_args
    /\ UNCHANGED <<cacheVars, llmVars, ragVars, sessionVars, loopVars, laterVars>>

NextRerank == Rerank

SpecRerank == InitRerank /\ [][NextRerank]_vars

\* ------------------------------------------------------------------------
\* SpecQuery: query_documents (rag_service.py 87-192) with every option, for
\* a client that asks one question again and again - top_k, document_id and
\* rerank as first asked, verify and skip_cache as it likes - and waits for
\* each answer; nothing is ingested or deleted meanwhile.
\* ------------------------------------------------------------------------
\* SpecLoop: the requests in flight on the event loop, each calling into one
\* cache tier, with the methods of TTLCache (cache_service.py 32-70) taken
\* statement by statement.  Every route is a coroutine of the one event
\* loop; the only other thread is the executor that computes embeddings
\* (embedding_service.py 72-75), and its job does not touch a tier.
\* ------------------------------------------------------------------------

\* The requests in flight.
TaskIds == 1..MaxInFlight

\* The keys the requests use, and the value they store.
LoopKeys == {1, 2}
LoopValue == "a"

\* The methods a request calls on the tier.
TierOps == {"get", "set", "delete", "flush", "size"}

\* A request: where it stands; the method it is in, with its key and the
\* _store as it was when the method was entered; the locals of the method:
\* the expiry of the entry read, the size of the dict when the iteration of
\* _evict_expired began, the position of the iteration, the keys in
\* `expired`, oldest_key.
Task(pc, op, key, begin, exp, n0, pos, expired, oldest) ==
    [pc |-> pc, op |-> op, key |-> key, begin |-> begin, exp |-> exp,
     n0 |-> n0, pos |-> pos, expired |-> expired, oldest |-> oldest]

\* A request that is in no method: not running ("ready": not yet started,
\* or resumable), awaiting its executor job ("executor"), or running
\* between two calls ("run").
Outside(pc) == Task(pc, "none", 0, << >>, -1, 0, 0, << >>, 0)

\* The coroutine stands at an await, or has not started, whatever pc is.
YieldedAnywhere(pc) == TRUE

\* The coroutine does not hold the loop thread: it has not started, or it
\* stands at `await loop.run_in_executor(...)`.  The methods of TTLCache have
\* no await.
Yielded(pc) == pc \in {"ready", "executor"}

\* The loop thread can run a statement of request t: it is running t, or the
\* request it ran has yielded.
Scheduled(t) == t = current \/ Yielded(tasks[current].pc)

\* The server has started: an empty tier of any configuration that holds a
\* key, and requests that have not started.
InitLoop ==
    /\ store = << >>
    /\ max_keys \in 1..MaxKeys
    /\ default_ttl \in DefaultTTLs
    /\ now = 0
    /\ last = NoOp
    /\ tasks = [t \in TaskIds |-> Outside("ready")]
    /\ current = 1
    /\ completed = NoCompletion
    /\ fault = None
    /\ LLMIdle
    /\ RagIdle
    /\ RerankIdle
    /\ SessionIdle
    /\ LaterIdle

\* What every step of request t leaves alone.
LoopFrame ==
    /\ UNCHANGED <<max_keys, default_ttl, now, last>>
    /\ UNCHANGED <<llmVars, ragVars, rerankVars, sessionVars, laterVars>>

\* Request t goes on to pc with its locals changed to l.
Goto(t, l) == tasks' = [tasks EXCEPT ![t] = l]

\* The method of request t returns value (get) or size (size).
Return(t, value, size) ==
    /\ tasks' = [tasks EXCEPT ![t] = Outside("run")]
    /\ completed' = Completion(t, tasks[t].op, tasks[t].key, tasks[t].begin,
                               store', now, value, size)
    /\ UNCHANGED fault

\* A statement of the method of request t raises exc.
Raise(t, exc) ==
    /\ tasks' = [tasks EXCEPT ![t] = Outside("run")]
    /\ fault' = exc
    /\ UNCHANGED store
    /\ completed' = NoCompletion

\* The loop thread starts or resumes request t.
Start(t) ==
    /\ Scheduled(t)
    /\ tasks[t].pc = "ready"
    /\ current' = t
    /\ Goto(t, Outside("run"))
    /\ UNCHANGED <<store, fault>>
    /\ completed' = NoCompletion
    /\ LoopFrame

\* Request t reaches `await loop.run_in_executor(...)`: the loop thread is
\* free for another request while the executor thread computes.
Await(t) ==
    /\ Scheduled(t)
    /\ tasks[t].pc = "run"
    /\ current' = t
    /\ Goto(t, Outside("executor"))
    /\ UNCHANGED <<store, fault>>
    /\ completed' = NoCompletion
    /\ LoopFrame

\* The executor thread finishes the job of request t, whatever the loop
\* thread is doing: the request can be resumed.
WorkerDone(t) ==
    /\ tasks[t].pc = "executor"
    /\ Goto(t, Outside("ready"))
    /\ UNCHANGED <<current, store, fault>>
    /\ completed' = NoCompletion
    /\ LoopFrame

\* Request t returns its response; another request takes its place.
Finish(t) ==
    /\ Scheduled(t)
    /\ tasks[t].pc = "run"
    /\ current' = t
    /\ Goto(t, Outside("ready"))
    /\ UNCHANGED <<store, fault>>
    /\ completed' = NoCompletion
    /\ LoopFrame

\* Request t calls a method of the tier: get (32), set (42, with ttl = None
\* as every caller has it), delete (51), flush (54), size (62).  size
\* starts the iteration of _evict_expired (63, 67-68).
Call(t, op, key) ==
    /\ Scheduled(t)
    /\ tasks[t].pc = "run"
    /\ current' = t
    /\ op \in {"flush", "size"} => key = 0
    /\ op \notin {"flush", "size"} => key \in LoopKeys
    /\ Goto(t, Task(CASE op = "get" -> "get_read"
                      [] op = "set" -> "set_check1"
                      [] op = "delete" -> "delete_pop"
                      [] op = "flush" -> "flush_clear"
                      [] op = "size" -> "iter",
                    op, key, store, -1, Len(store), 1, << >>, 0))
    /\ UNCHANGED <<store, fault>>
    /\ completed' = NoCompletion
    /\ LoopFrame

\* get, lines 33-37 and 40: the entry is read; a missing key returns None,
\* a live entry its value, an expired one goes on to the del.
GetRead(t) ==
    /\ Scheduled(t)
    /\ tasks[t].pc = "get_read"
    /\ current' = t
    /\ LET i == IndexOfKey(store, tasks[t].key)
       IN IF i = 0
          THEN UNCHANGED store /\ Return(t, None, 0)
          ELSE IF IsExpired(store[i].exp, now)
               THEN /\ Goto(t, [tasks[t] EXCEPT !.pc = "get_del", !.exp = store[i].exp])
                    /\ UNCHANGED <<store, fault>>
                    /\ completed' = NoCompletion
               ELSE UNCHANGED store /\ Return(t, store[i].value, 0)
    /\ LoopFrame

\* get, lines 38-39: del self._store[key], which raises KeyError when the
\* key is gone.
GetDel(t) ==
    /\ Scheduled(t)
    /\ tasks[t].pc = "get_del"
    /\ current' = t
    /\ IF IndexOfKey(store, tasks[t].key) = 0
       THEN Raise(t, "KeyError")
       ELSE /\ store' = TTLDelete(store, tasks[t].key)
            /\ Return(t, None, 0)
    /\ LoopFrame

\* set, line 43: at capacity the iteration of _evict_expired begins (44,
\* 67-68), otherwise the second test follows.
SetCheck1(t) ==
    /\ Scheduled(t)
    /\ tasks[t].pc = "set_check1"
    /\ current' = t
    /\ Goto(t, [tasks[t] EXCEPT
                  !.pc = IF AtCapacity(store, max_keys) THEN "iter" ELSE "set_check2",
                  !.n0 = Len(store), !.pos = 1, !.expired = << >>])
    /\ UNCHANGED <<store, fault>>
    /\ completed' = NoCompletion
    /\ LoopFrame

\* _evict_expired, line 68: one step of the iteration over
\* self._store.items().  A dict whose size has changed since the iteration
\* began raises RuntimeError; past the last item the iteration ends.
Iter(t) ==
    /\ Scheduled(t)
    /\ tasks[t].pc = "iter"
    /\ current' = t
    /\ LET l == tasks[t]
       IN IF Len(store) # l.n0
          THEN Raise(t, "RuntimeError")
          ELSE /\ Goto(t, IF l.pos > l.n0
                          THEN [l EXCEPT !.pc = "sweep_del"]
                          ELSE [l EXCEPT !.pos = l.pos + 1,
                                         !.expired =
                                            IF IsExpired(store[l.pos].exp, now)
                                            THEN Append(l.expired, store[l.pos].key)
                                            ELSE l.expired])
               /\ UNCHANGED <<store, fault>>
               /\ completed' = NoCompletion
    /\ LoopFrame

\* _evict_expired, lines 69-70: one del of the loop over `expired`, which
\* raises KeyError when the key is gone; after the last one the caller goes
\* on (set at 45, size at 64).
SweepDel(t) ==
    /\ Scheduled(t)
    /\ tasks[t].pc = "sweep_del"
    /\ current' = t
    /\ LET l == tasks[t]
       IN IF l.expired = << >>
          THEN /\ Goto(t, [l EXCEPT !.pc = IF l.op = "set" THEN "set_check2"
                                                           ELSE "size_len"])
               /\ UNCHANGED <<store, fault>>
               /\ completed' = NoCompletion
          ELSE IF IndexOfKey(store, Head(l.expired)) = 0
               THEN Raise(t, "KeyError")
               ELSE /\ store' = TTLDelete(store, Head(l.expired))
                    /\ Goto(t, [l EXCEPT !.expired = Tail(l.expired)])
                    /\ UNCHANGED fault
                    /\ completed' = NoCompletion
    /\ LoopFrame

\* set, line 45: the second test of the capacity.
SetCheck2(t) ==
    /\ Scheduled(t)
    /\ tasks[t].pc = "set_check2"
    /\ current' = t
    /\ Goto(t, [tasks[t] EXCEPT
                  !.pc = IF AtCapacity(store, max_keys) THEN "evict_read"
                                                        ELSE "set_assign"])
    /\ UNCHANGED <<store, fault>>
    /\ completed' = NoCompletion
    /\ LoopFrame

\* set, line 47: oldest_key = next(iter(self._store)), which raises
\* StopIteration on an empty dict.
EvictRead(t) ==
    /\ Scheduled(t)
    /\ tasks[t].pc = "evict_read"
    /\ current' = t
    /\ IF store = << >>
       THEN Raise(t, "StopIteration")
       ELSE /\ Goto(t, [tasks[t] EXCEPT !.pc = "evict_del", !.oldest = store[1].key])
            /\ UNCHANGED <<store, fault>>
            /\ completed' = NoCompletion
    /\ LoopFrame

\* set, line 48: del self._store[oldest_key].
EvictDel(t) ==
    /\ Scheduled(t)
    /\ tasks[t].pc = "evict_del"
    /\ current' = t
    /\ IF IndexOfKey(store, tasks[t].oldest) = 0
       THEN Raise(t, "KeyError")
       ELSE /\ store' = TTLDelete(store, tasks[t].oldest)
            /\ Goto(t, [tasks[t] EXCEPT !.pc = "set_assign"])
            /\ UNCHANGED fault
            /\ completed' = NoCompletion
    /\ LoopFrame

\* set, line 49: the assignment, with ttl = None.
SetAssign(t) ==
    /\ Scheduled(t)
    /\ tasks[t].pc = "set_assign"
    /\ current' = t
    /\ store' = DictAssign(store, [key |-> tasks[t].key, value |-> LoopValue,
                                   exp |-> ExpiryOf(now, 0, default_ttl)])
    /\ Return(t, None, 0)
    /\ LoopFrame

\* size, line 64.
SizeLen(t) ==
    /\ Scheduled(t)
    /\ tasks[t].pc = "size_len"
    /\ current' = t
    /\ UNCHANGED store
    /\ Return(t, None, Len(store))
    /\ LoopFrame

\* delete, line 52.
DeletePop(t) ==
    /\ Scheduled(t)
    /\ tasks[t].pc = "delete_pop"
    /\ current' = t
    /\ store' = TTLDelete(store, tasks[t].key)
    /\ Return(t, None, 0)
    /\ LoopFrame

\* flush, line 55.
FlushClear(t) ==
    /\ Scheduled(t)
    /\ tasks[t].pc = "flush_clear"
    /\ current' = t
    /\ store' = TTLFlush(store)
    /\ Return(t, None, 0)
    /\ LoopFrame

\* A second passes while no request is inside a method (a method takes
\* far less than a second).
LoopTick ==
    /\ now < MaxTime
    /\ \A t \in TaskIds : tasks[t].op = "none"
    /\ now' = now + 1
    /\ UNCHANGED <<store, max_keys, default_ttl, last, tasks, current, fault>>
    /\ completed' = NoCompletion
    /\ UNCHANGED <<llmVars, ragVars, rerankVars, sessionVars, laterVars>>

NextLoop ==
    \/ \E t \in TaskIds : Start(t)
    \/ \E t \in TaskIds : Await(t)
    \/ \E t \in TaskIds : WorkerDone(t)
    \/ \E t \in TaskIds : Finish(t)
    \/ \E t \in TaskIds, op \in TierOps, key \in LoopKeys \cup {0} : Call(t, op, key)
    \/ \E t \in TaskIds : GetRead(t)
    \/ \E t \in TaskIds : GetDel(t)
    \/ \E t \in TaskIds : SetCheck1(t)
    \/ \E t \in TaskIds : Iter(t)
    \/ \E t \in TaskIds : SweepDel(t)
    \/ \E t \in TaskIds : SetCheck2(t)
    \/ \E t \in TaskIds : EvictRead(t)
    \/ \E t \in TaskIds : EvictDel(t)
    \/ \E t \in TaskIds : SetAssign(t)
    \/ \E t \in TaskIds : SizeLen(t)
    \/ \E t \in TaskIds : DeletePop(t)
    \/ \E t \in TaskIds : FlushClear(t)
    \/ LoopTick

SpecLoop == InitLoop /\ [][NextLoop]_vars

\* ------------------------------------------------------------------------
\* SpecParse: one response of the query pipeline gets its confidence
\* object, from parse_confidence (llm_service.py 311-335) or from the
\* short-circuit of query_documents (rag_service.py 124-130).  A text is a
\* sequence of tokens: a word, a word that ends with "]", a space, a line
\* break, or an annotation "[CONFIDENCE: X/10 | REASON: r]" with the digits
\* of X and a reason r of one line.
\* ------------------------------------------------------------------------

Token(kind, digits) == [kind |-> kind, digits |-> digits]

\* The digit strings X of the annotations: every level and both of its
\* ends, a leading zero, and numbers beside 1..10.
Numerals ==
    {<<0>>, <<2>>, <<3>>, <<4>>, <<5>>, <<6>>, <<7>>, <<8>>, <<9>>, <<1, 0>>,
     <<1, 1>>, <<0, 8>>}

Tokens ==
    {Token(k, << >>) : k \in {"word", "closing", "space", "newline"}}
        \cup {Token("annotation", d) : d \in Numerals}

\* The texts the backend returns.
Texts == UNION {[1..n -> Tokens] : n \in 0..MaxTokens}

\* \s of the pattern, and the whitespace str.strip() removes.
IsSpace(tok) == tok.kind \in {"space", "newline"}

\* The token ends with the character "]".
EndsWithBracket(tok) == tok.kind \in {"annotation", "closing"}

\* int(match.group(1)) (321).
RECURSIVE IntOf(_)
IntOf(digits) ==
    IF digits = << >> THEN 0
    ELSE 10 * IntOf(SubSeq(digits, 1, Len(digits) - 1)) + digits[Len(digits)]

\* The last token that is not whitespace, 0 when there is none.
LastNonSpace(text) ==
    LET found == {i \in 1..Len(text) : ~IsSpace(text[i])}
    IN IF found = {} THEN 0 ELSE CHOOSE i \in found : \A j \in found : j <= i

\* str.strip() (320).
Strip(text) ==
    LET found == {i \in 1..Len(text) : ~IsSpace(text[i])}
    IN IF found = {} THEN << >>
       ELSE SubSeq(text, CHOOSE i \in found : \A j \in found : i <= j,
                   LastNonSpace(text))

\* The pattern (316) matches from the annotation at i: the reason `(.+?)`
\* runs on, over anything but a line break, to a "]" that only whitespace
\* follows up to the end of the text.
MatchAt(text, i) ==
    /\ text[i].kind = "annotation"
    /\ LastNonSpace(text) >= i
    /\ EndsWithBracket(text[LastNonSpace(text)])
    /\ \A k \in (i + 1)..(LastNonSpace(text) - 1) : text[k].kind # "newline"

\* re.search (317): the leftmost match, 0 when there is none.
SearchPattern(text) ==
    LET found == {i \in 1..Len(text) : MatchAt(text, i)}
    IN IF found = {} THEN 0 ELSE CHOOSE i \in found : \A j \in found : i <= j

\* response has no score (None).
NoScore == -1

\* The level of a score (323-332).
Level(score) ==
    IF score >= 9 THEN "very_high"
    ELSE IF score >= 7 THEN "high"
    ELSE IF score >= 5 THEN "medium"
    ELSE IF score >= 3 THEN "low"
    ELSE "very_low"

Confidence(score, level) == [score |-> score, level |-> level]

\* parse_confidence (311-335): re.sub removes the match, which runs to the
\* end of the text.
ParseConfidence(response) ==
    LET i == SearchPattern(response)
    IN IF i # 0
       THEN [answer |-> Strip(SubSeq(response, 1, i - 1)),
             confidence |-> Confidence(IntOf(response[i].digits),
                                       Level(IntOf(response[i].digits)))]
       ELSE [answer |-> response, confidence |-> Confidence(NoScore, "unknown")]

\* The response of a query that retrieved nothing (rag_service.py 125-130).
NoDocumentsAnswer ==
    [answer |-> <<Token("word", << >>)>>, confidence |-> Confidence(0, "none")]

Parsed(done, source, r) ==
    [done |-> done, source |-> source, answer |-> r.answer,
     confidence |-> r.confidence]

NotParsed ==
    Parsed(FALSE, "none", [answer |-> << >>, confidence |-> Confidence(NoScore, "unknown")])

\* The backend has returned a text for a query.
InitParse ==
    /\ raw_answer \in Texts
    /\ parsed = NotParsed
    /\ CacheIdle
    /\ LLMIdle
    /\ RagIdle
    /\ RerankIdle
    /\ SessionIdle
    /\ LoopIdle
    /\ ChunkIdle
    /\ CompareIdle
    /\ FinalIdle

ParseFrame ==
    /\ UNCHANGED raw_answer
    /\ UNCHANGED <<cacheVars, llmVars, ragVars, rerankVars, sessionVars, loopVars>>
    /\ UNCHANGED <<chunkVars, compareVars, finalVars>>

\* query_documents parses the confidence of the generated answer (143).
ParseAnswer ==
    /\ ~parsed.done
    /\ parsed' = Parsed(TRUE, "generated", ParseConfidence(raw_answer))
    /\ ParseFrame

\* query_documents retrieved nothing and returns before the generation
\* (124-130).
AnswerNoDocuments ==
    /\ ~parsed.done
    /\ parsed' = Parsed(TRUE, "no_documents", NoDocumentsAnswer)
    /\ ParseFrame

NextParse == ParseAnswer \/ AnswerNoDocuments

SpecParse == InitParse /\ [][NextParse]_vars

\* ------------------------------------------------------------------------
\* SpecChunk: chunk_text (chunking_service.py 13-80) and its helpers on a
\* text drawn from a bounded set, and the ingest_document call that makes
\* it.  A text and a chunk are sequences of characters; a chunk carries,
\* beside its text, the sentences it was joined from (their positions in
\* the sentence list), how many of them are the overlap seed, and its number
\* among the pieces of a force-split sentence (0 for a chunk of whole
\* sentences).
\* ------------------------------------------------------------------------

DEFAULT_CHUNK_SIZE == 500
DEFAULT_CHUNK_OVERLAP == 100

\* The size _force_split falls back to (132).
FallbackSize == 500

SpaceChar == " "

\* The words the texts are made of: sentences of one and four characters, a
\* sentence with a space inside and no full stop, and a further space.
TextWords == {<<".">>, <<"a", "a", "a", ".">>, <<"a", SpaceChar, "a">>, <<SpaceChar>>}

\* " ".join(parts).
RECURSIVE JoinWithSpace(_)
JoinWithSpace(parts) ==
    IF parts = << >> THEN << >>
    ELSE IF Len(parts) = 1 THEN parts[1]
    ELSE parts[1] \o <<SpaceChar>> \o JoinWithSpace(Tail(parts))

\* The texts: up to MaxWords words with a space between two of them.
InputTexts == {JoinWithSpace(w) : w \in UNION {[1..n -> TextWords] : n \in 0..MaxWords}}

\* str.strip().
StripChars(s) ==
    LET found == {i \in 1..Len(s) : s[i] # SpaceChar}
    IN IF found = {} THEN << >>
       ELSE SubSeq(s, CHOOSE i \in found : \A j \in found : i <= j,
                   CHOOSE i \in found : \A j \in found : j <= i)

\* Every text taken for blank.
IsBlankAlways(text) == TRUE

\* `not text or not text.strip()` (32).
IsBlank(text) == StripChars(text) = << >>

\* The text after the whitespace it starts with.
RECURSIVE DropSpaces(_)
DropSpaces(s) ==
    IF s # << >> /\ Head(s) = SpaceChar THEN DropSpaces(Tail(s)) ELSE s

\* re.split(r"(?<=[.!?])\s+", text) (107): the text is cut at every run of
\* whitespace that follows a full stop, and the run is dropped.
RECURSIVE SplitParts(_, _)
SplitParts(rest, part) ==
    IF rest = << >> THEN <<part>>
    ELSE IF Head(rest) = SpaceChar /\ part # << >> /\ part[Len(part)] = "."
         THEN <<part>> \o SplitParts(DropSpaces(rest), << >>)
         ELSE SplitParts(Tail(rest), Append(part, Head(rest)))

\* _split_into_sentences (106-108).
SplitIntoSentences(text) ==
    LET parts == SplitParts(text, << >>)
        kept == SelectSeq(parts, LAMBDA p : StripChars(p) # << >>)
    IN [i \in 1..Len(kept) |-> StripChars(kept[i])]

\* int(size * 0.2) (39, 134): the float product, cut toward zero.
IntFifth(size) == IF size >= 0 THEN size \div 5 ELSE -((-size) \div 5)

\* sum(len(s) for s in sentences)
RECURSIVE SumLen(_)
SumLen(sentences) ==
    IF sentences = << >> THEN 0 ELSE Len(Head(sentences)) + SumLen(Tail(sentences))

\* How many of the last sentences _get_overlap_sentences (117-126) takes,
\* having taken `taken` of them with char_count characters.
RECURSIVE OverlapCount(_, _, _, _)
OverlapCount(sentences, overlap_chars, taken, char_count) ==
    IF taken = Len(sentences) THEN taken
    ELSE LET sl == Len(sentences[Len(sentences) - taken])
         IN IF char_count + sl > overlap_chars THEN taken
            ELSE OverlapCount(sentences, overlap_chars, taken + 1, char_count + sl)

\* _get_overlap_sentences (117-126), on a list of sentence positions.
GetOverlapSentences(at, sentences, overlap_chars) ==
    LET strs == [i \in 1..Len(at) |-> sentences[at[i]]]
        n == OverlapCount(strs, overlap_chars, 0, 0)
    IN SubSeq(at, Len(at) - n + 1, Len(at))

\* A chunk of whole sentences and a piece of a force-split sentence.
Chunk(text, at, seed, piece) ==
    [text |-> text, sentences |-> at, seed |-> seed, piece |-> piece]

\* " ".join(current_chunk) of the sentences at the positions `at`.
JoinAt(at, sentences) == JoinWithSpace([i \in 1..Len(at) |-> sentences[at[i]]])

\* A step that does not advance.
ForceStepStuck(size, overlap) == 0

\* The step of _force_split (144).
ForceStep(size, overlap) ==
    LET sz == IF size <= 0 THEN FallbackSize ELSE size
        ov == IF overlap >= sz THEN IntFifth(sz) ELSE overlap
    IN IF sz - ov >= 1 THEN sz - ov ELSE 1

\* One turn of the while loop of _force_split (138-145) at `start` (from 0):
\* the piece it appends, if any.
ForcePiece(text, size, start) ==
    LET sz == IF size <= 0 THEN FallbackSize ELSE size
        end == IF start + sz <= Len(text) THEN start + sz ELSE Len(text)
    IN StripChars(SubSeq(text, start + 1, end))

\* _force_split (129-146) from `start` on, for the sentence at position i,
\* with `made` pieces appended so far.
RECURSIVE ForceSplitFrom(_, _, _, _, _, _)
ForceSplitFrom(text, i, size, overlap, start, made) ==
    IF start >= Len(text) THEN << >>
    ELSE LET piece == ForcePiece(text, size, start)
         IN IF piece # << >>
            THEN <<Chunk(piece, <<i>>, 0, made + 1)>>
                    \o ForceSplitFrom(text, i, size, overlap,
                                      start + ForceStep(size, overlap), made + 1)
            ELSE ForceSplitFrom(text, i, size, overlap,
                                start + ForceStep(size, overlap), made)

ForceSplit(text, i, size, overlap) == ForceSplitFrom(text, i, size, overlap, 0, 0)

\* `chunk_size or DEFAULT_CHUNK_SIZE` (29): 0 and None fall to the default.
SizeOf(chunk_size) == IF chunk_size # 0 THEN chunk_size ELSE DEFAULT_CHUNK_SIZE

\* The overlap left as it was given.
OverlapUnclamped(chunk_size, chunk_overlap) ==
    IF chunk_overlap # 0 THEN chunk_overlap ELSE DEFAULT_CHUNK_OVERLAP

\* `chunk_overlap or DEFAULT_CHUNK_OVERLAP` (30), clamped to a fifth of the
\* size when it is not below the size (36-39).
OverlapOf(chunk_size, chunk_overlap) ==
    LET overlap == IF chunk_overlap # 0 THEN chunk_overlap ELSE DEFAULT_CHUNK_OVERLAP
    IN IF overlap >= SizeOf(chunk_size) THEN IntFifth(SizeOf(chunk_size)) ELSE overlap

\* The locals of the loop of chunk_text (43-45); current_chunk is the list
\* of sentence positions, seed how many of them _get_overlap_sentences put
\* there.
Buffer(chunks, current_chunk, seed, current_len) ==
    [chunks |-> chunks, current_chunk |-> current_chunk, seed |-> seed,
     current_len |-> current_len]

\* len of the joined sentences as lines 55 and 66 compute it.
LenOfJoined(at, sentences) ==
    SumLen([i \in 1..Len(at) |-> sentences[at[i]]])
        + (IF Len(at) - 1 > 0 THEN Len(at) - 1 ELSE 0)

\* Lines 52-53 and 64: the buffer is closed into a chunk.
CloseChunk(b, sentences) ==
    Append(b.chunks, Chunk(JoinAt(b.current_chunk, sentences), b.current_chunk,
                           b.seed, 0))

\* The sentence at position i is longer than size (51).
TooLong(sentences, i, size) == Len(sentences[i]) > size

\* One turn of the for loop (47-69) for a sentence that fits: the buffer is
\* closed when the sentence does not fit behind it, and the sentence goes
\* behind the overlap seed.
AddSentence(b, sentences, i, size, overlap) ==
    LET s_len == Len(sentences[i])
        sep_len == IF b.current_chunk # << >> THEN 1 ELSE 0
        close == b.current_len + sep_len + s_len > size /\ b.current_chunk # << >>
        kept == IF close THEN GetOverlapSentences(b.current_chunk, sentences, overlap)
                ELSE b.current_chunk
        len == IF close THEN LenOfJoined(kept, sentences) ELSE b.current_len
    IN Buffer(IF close THEN CloseChunk(b, sentences) ELSE b.chunks,
              Append(kept, i),
              IF close THEN Len(kept) ELSE b.seed,
              len + (IF len > 0 THEN 1 ELSE 0) + s_len)

\* Lines 52-53 of a turn for a sentence that is too long: the buffer, if
\* any, is closed before the pieces.
BeforePieces(b, sentences) ==
    IF b.current_chunk # << >> THEN CloseChunk(b, sentences) ELSE b.chunks

\* One turn of the for loop (47-69).
LoopBody(b, sentences, i, size, overlap) ==
    IF TooLong(sentences, i, size)
    THEN Buffer(BeforePieces(b, sentences) \o ForceSplit(sentences[i], i, size, overlap),
                << >>, 0, 0)
    ELSE AddSentence(b, sentences, i, size, overlap)

\* The for loop from sentence i on.
RECURSIVE LoopFrom(_, _, _, _, _)
LoopFrom(b, sentences, i, size, overlap) ==
    IF i > Len(sentences) THEN b
    ELSE LoopFrom(LoopBody(b, sentences, i, size, overlap), sentences, i + 1,
                  size, overlap)

\* Lines 72-80: what is left in the buffer becomes the last chunk, or goes
\* behind the last chunk when it is shorter than overlap.
FlushRemaining(b, sentences, overlap) ==
    LET remaining == StripChars(JoinAt(b.current_chunk, sentences))
        n == Len(b.chunks)
    IN IF b.current_chunk = << >> \/ remaining = << >> THEN b.chunks
       ELSE IF n > 0 /\ Len(remaining) < overlap
            THEN [b.chunks EXCEPT ![n] =
                     Chunk(b.chunks[n].text \o <<SpaceChar>> \o remaining,
                           b.chunks[n].sentences \o b.current_chunk,
                           b.chunks[n].seed, b.chunks[n].piece)]
            ELSE Append(b.chunks, Chunk(remaining, b.current_chunk, b.seed, 0))

\* chunk_text (13-80).
ChunkText(text, chunk_size, chunk_overlap) ==
    IF IsBlank(text) THEN << >>
    ELSE LET size == SizeOf(chunk_size)
             overlap == OverlapOf(chunk_size, chunk_overlap)
             sentences == SplitIntoSentences(text)
         IN FlushRemaining(LoopFrom(Buffer(<< >>, << >>, 0, 0), sentences, 1,
                                    size, overlap),
                           sentences, overlap)

\* The sizes and overlaps chunk_text is called with: negative ones, 0 (the
\* value that falls to the default, as None does), and overlaps below, at
\* and above the size.
ChunkSizes == (-1)..MaxSize
ChunkOverlaps == (-1)..MaxSize

ChunkArgs(text, chunk_size, chunk_overlap) ==
    [text |-> text, chunk_size |-> chunk_size, chunk_overlap |-> chunk_overlap]

\* What a call did: the chunks chunk_text returned, and whether
\* ingest_document raised ValueError.
ChunkOut(op, raised, chunks) == [op |-> op, raised |-> raised, chunks |-> chunks]

NotChunked == ChunkOut("none", FALSE, << >>)

\* A query the server has answered and cached before the upload.
EarlierQuery == CHOOSE r \in Requests : r.document_id = NoDoc /\ ~r.verify

\* The server holds a document, a cached query response and a cached query
\* embedding; a caller holds a text and a chunk configuration.
InitChunk ==
    /\ ck_args \in {ChunkArgs(t, s, o) : t \in InputTexts, s \in ChunkSizes,
                                        o \in ChunkOverlaps}
    /\ ck_out = NotChunked
    /\ ck_run = None
    /\ index = {[doc |-> 0, batch |-> b] : b \in Batches}
    /\ queryStore = SetQueryResult(<< >>, EarlierQuery.query, EarlierQuery,
                                   BuildResponse(Retrieve(index, EarlierQuery),
                                                 FALSE, FALSE), 0)
    /\ embStore = SetEmbedding(<< >>, QueryText(EarlierQuery.query), 0)
    /\ qry = EmptyBag
    /\ ing = {}
    /\ uploads = 0
    /\ returned = NothingReturned
    /\ CacheIdle
    /\ LLMIdle
    /\ RerankIdle
    /\ SessionIdle
    /\ LoopIdle
    /\ ParseIdle
    /\ CompareIdle
    /\ FinalIdle

ChunkFrame ==
    /\ UNCHANGED <<ck_args, ck_run, qry, ing, returned>>
    /\ UNCHANGED <<cacheVars, llmVars, rerankVars, sessionVars, loopVars>>
    /\ UNCHANGED <<parseVars, compareVars, finalVars>>

\* chunk_text is called on the text.
CallChunkText ==
    /\ ck_out.op = "none"
    /\ ck_out' = ChunkOut("chunk_text", FALSE,
                          ChunkText(ck_args.text, ck_args.chunk_size,
                                    ck_args.chunk_overlap))
    /\ UNCHANGED <<index, queryStore, embStore, uploads>>
    /\ ChunkFrame

\* Runs of spaces collapsed to one: re.sub(r"[ \t]+", " ", text)
\* (document_parser.py 97).
RECURSIVE CollapseSpaces(_)
CollapseSpaces(s) ==
    IF s = << >> THEN << >>
    ELSE IF Head(s) = SpaceChar
         THEN <<SpaceChar>> \o CollapseSpaces(DropSpaces(s))
         ELSE <<Head(s)>> \o CollapseSpaces(Tail(s))

\* _clean_text (document_parser.py 93-98) on a text without control
\* characters and line breaks.
CleanText(text) == StripChars(CollapseSpaces(text))

\* ingest_document raises ValueError before anything is embedded or stored:
\* parse_document on an empty extracted text (document_parser.py 55-56), and
\* line 50-51 on an empty chunk list.
Rejected(raw_text, chunks) == IsBlank(raw_text) \/ chunks = << >>

\* ingest_document (28-80) on a file with the text, with a backend and an
\* index that do not fail: the text is extracted and chunked; the chunks are
\* embedded through the embedding cache, stored, and the query cache is
\* invalidated.
IngestDocument ==
    /\ ck_out.op = "none"
    /\ LET raw_text == CleanText(ck_args.text)
           chunks == ChunkText(raw_text, ck_args.chunk_size, ck_args.chunk_overlap)
       IN IF Rejected(raw_text, chunks)
          THEN /\ ck_out' = ChunkOut("ingest", TRUE, chunks)
               /\ UNCHANGED <<index, queryStore, embStore, uploads>>
          ELSE /\ ck_out' = ChunkOut("ingest", FALSE, chunks)
               /\ uploads' = uploads + 1
               /\ index' = index \cup {[doc |-> uploads + 1, batch |-> b] : b \in Batches}
               /\ embStore' = SetEmbedding(GetEmbedding(embStore, ChunkTexts, now).store,
                                           ChunkTexts, now)
               /\ queryStore' = InvalidateQueries(queryStore)
    /\ ChunkFrame

NextChunk == CallChunkText \/ IngestDocument

SpecChunk == InitChunk /\ [][NextChunk]_vars

\* ------------------------------------------------------------------------
\* SpecChunkLoop: one chunk_text call taken turn by turn: a turn of the for
\* loop over the sentences (47-69) and a turn of the while loop of
\* _force_split (138-145) are steps of their own.
\* ------------------------------------------------------------------------

\* The texts of the calls taken turn by turn: one word shorter.
LoopTexts == {JoinWithSpace(w) : w \in UNION {[1..n -> TextWords] : n \in 0..(MaxWords - 1)}}

\* The locals of the call: where it stands, size, overlap and sentences
\* (29-41), the position of the sentence of this turn, the buffer, and start
\* and the pieces made in _force_split.
Run(pc, size, overlap, sentences, i, b, start, made) ==
    [pc |-> pc, size |-> size, overlap |-> overlap, sentences |-> sentences,
     i |-> i, b |-> b, start |-> start, made |-> made]

\* No call yet.
NoChunkArgs == ChunkArgs(<< >>, 0, 0)

\* The process has started; chunk_text has not been called.
InitChunkLoop ==
    /\ ck_args = NoChunkArgs
    /\ ck_out = NotChunked
    /\ ck_run = Run("call", 0, 0, << >>, 0, Buffer(<< >>, << >>, 0, 0), 0, 0)
    /\ CacheIdle
    /\ LLMIdle
    /\ RagIdle
    /\ RerankIdle
    /\ SessionIdle
    /\ LoopIdle
    /\ ParseIdle
    /\ CompareIdle
    /\ FinalIdle

ChunkLoopFrame ==
    /\ UNCHANGED <<cacheVars, llmVars, ragVars, rerankVars, sessionVars, loopVars>>
    /\ UNCHANGED <<parseVars, compareVars, finalVars>>

\* The size, the overlap and the sentences of the call.
RunSize == ck_run.size
RunOverlap == ck_run.overlap
RunSentences == ck_run.sentences

\* Lines 29-45: a blank text returns [], any other enters the loop with the
\* size, the clamped overlap and the sentences.
EnterChunkText ==
    /\ ck_run.pc = "call"
    /\ \E text \in LoopTexts, chunk_size \in ChunkSizes, chunk_overlap \in ChunkOverlaps :
          /\ ck_args' = ChunkArgs(text, chunk_size, chunk_overlap)
          /\ IF IsBlank(text)
             THEN /\ ck_run' = [ck_run EXCEPT !.pc = "done"]
                  /\ ck_out' = ChunkOut("chunk_text", FALSE, << >>)
             ELSE /\ ck_run' = [ck_run EXCEPT
                                  !.pc = "loop",
                                  !.size = SizeOf(chunk_size),
                                  !.overlap = OverlapOf(chunk_size, chunk_overlap),
                                  !.sentences = SplitIntoSentences(text),
                                  !.i = 1]
                  /\ UNCHANGED ck_out
    /\ ChunkLoopFrame

\* A turn of the for loop for a sentence that fits in size (61-69).
SentenceTurn ==
    /\ ck_run.pc = "loop"
    /\ ck_run.i <= Len(RunSentences)
    /\ ~TooLong(RunSentences, ck_run.i, RunSize)
    /\ ck_run' = [ck_run EXCEPT
                    !.b = AddSentence(ck_run.b, RunSentences, ck_run.i, RunSize,
                                      RunOverlap),
                    !.i = ck_run.i + 1]
    /\ UNCHANGED ck_out
    /\ UNCHANGED ck_args
    /\ ChunkLoopFrame

\* A turn for a sentence longer than size: the buffer is closed (52-55) and
\* _force_split is entered (56, 131-137).
BeginForceSplit ==
    /\ ck_run.pc = "loop"
    /\ ck_run.i <= Len(RunSentences)
    /\ TooLong(RunSentences, ck_run.i, RunSize)
    /\ ck_run' = [ck_run EXCEPT
                    !.pc = "split",
                    !.b = Buffer(BeforePieces(ck_run.b, RunSentences), << >>, 0, 0),
                    !.start = 0, !.made = 0]
    /\ UNCHANGED ck_out
    /\ UNCHANGED ck_args
    /\ ChunkLoopFrame

\* A turn of the while loop of _force_split (138-145).
ForceSplitTurn ==
    /\ ck_run.pc = "split"
    /\ ck_run.start < Len(RunSentences[ck_run.i])
    /\ LET piece == ForcePiece(RunSentences[ck_run.i], RunSize, ck_run.start)
       IN ck_run' = [ck_run EXCEPT
                       !.b.chunks = IF piece # << >>
                                    THEN Append(@, Chunk(piece, <<ck_run.i>>, 0,
                                                         ck_run.made + 1))
                                    ELSE @,
                       !.made = IF piece # << >> THEN @ + 1 ELSE @,
                       !.start = @ + ForceStep(RunSize, RunOverlap)]
    /\ UNCHANGED ck_out
    /\ UNCHANGED ck_args
    /\ ChunkLoopFrame

\* _force_split returns (146) and the for loop goes on (56-59).
EndForceSplit ==
    /\ ck_run.pc = "split"
    /\ ck_run.start >= Len(RunSentences[ck_run.i])
    /\ ck_run' = [ck_run EXCEPT !.pc = "loop", !.i = @ + 1, !.start = 0, !.made = 0]
    /\ UNCHANGED ck_out
    /\ UNCHANGED ck_args
    /\ ChunkLoopFrame

\* The loop has ended: the buffer is flushed and chunk_text returns (71-80).
FlushAndReturn ==
    /\ ck_run.pc = "loop"
    /\ ck_run.i > Len(RunSentences)
    /\ ck_run' = [ck_run EXCEPT !.pc = "done"]
    /\ ck_out' = ChunkOut("chunk_text", FALSE,
                          FlushRemaining(ck_run.b, RunSentences, RunOverlap))
    /\ UNCHANGED ck_args
    /\ ChunkLoopFrame

NextChunkLoop ==
    \/ EnterChunkText
    \/ SentenceTurn
    \/ BeginForceSplit
    \/ ForceSplitTurn
    \/ EndForceSplit
    \/ FlushAndReturn

\* The interpreter goes on with the call as long as it has a statement to
\* run.
SpecChunkLoop == InitChunkLoop /\ [][NextChunkLoop]_vars /\ WF_vars(NextChunkLoop)

\* ------------------------------------------------------------------------

\* The chunks an index can hold, and what an earlier run of the server can
\* have left in it: the chunks up to some distance from the query.
Chunks == {[doc |-> d, batch |-> b] : d \in Docs, b \in Batches}
StoredIndexes == {{c \in Chunks : Rank(c) <= r} : r \in {0} \cup {Rank(c) : c \in Chunks}}

\* The distance of a stored chunk from the query, in units of 1/Scale, in
\* the order of Rank.
Distance(c) == Rank(c) * 100

\* The words of a stored chunk.
ChunkWords(c) == IF c.batch = 1 THEN <<"Rag", "rag", "rag">> ELSE <<"db", "a">>

\* The dict search_similar builds for a chunk (vector_store_service.py
\* 100-106).
Passage(c) ==
    [chunk_id |-> c, text |-> ChunkWords(c),
     similarity_score |-> Scale - Distance(c)]

\* search_similar / search_by_document as called in lines 119-122.
Search(idx, req) ==
    LET found == SearchSimilar(idx, req.document_id, FetchK(req))
    IN [i \in 1..Len(found) |-> Passage(found[i])]

\* The questions: one of a single one-letter word, one with a token.
SessionQueries == {<<"a">>, <<"rag">>}

\* What a question fixes: the fields of the cache key.
SessionKeys ==
    [query : SessionQueries, top_k : 1..MaxTopN, document_id : Scopes,
     rerank : BOOLEAN]

\* The arguments of the call that asks key with the given flags.
Request(key, verify, skip_cache) ==
    [query |-> key.query, top_k |-> key.top_k, document_id |-> key.document_id,
     rerank |-> key.rerank, verify |-> verify, skip_cache |-> skip_cache]

\* `if not results` (124) that never holds.
NoResultsNever(results) == FALSE

\* `if not results` (124).
NoResults(results) == results = << >>

\* Lines 133-137: the re-ranker with top_n = top_k and its default weights
\* when rerank is set and there are two results or more, the cut to top_k
\* otherwise.
Select(req, results) ==
    IF req.rerank /\ Len(results) > 1
    THEN RerankChunks(req.query, results, req.top_k, Scale \div 2, Scale \div 2).result
    ELSE Truncate(results, req.top_k)

\* What a query_documents call did: its arguments, whether it raised,
\* whether its response came from the cache, the response, and the passages
\* of each generate_answer and verify_answer call it made.
QueryLog(req, raised, from_cache, response, generated, verified) ==
    [req |-> req, raised |-> raised, from_cache |-> from_cache,
     response |-> response, generated |-> generated, verified |-> verified]

\* query_documents (87-192) called with req on index idx, with the query
\* cache qs and the embedding cache es at time t, when no collaborator
\* fails: what it did, and the caches afterwards.
QueryDocuments(idx, qs, es, req, t) ==
    LET skip_cache == SkipCache(req)
        got == GetQueryResult(qs, req.query, req, t)
        qs1 == IF skip_cache THEN qs ELSE got.store
        emb == GetEmbedding(es, QueryText(req.query), t)
        es1 == IF emb.hit THEN emb.store
               ELSE SetEmbedding(emb.store, QueryText(req.query), t)
        found == Search(idx, req)
        results == Select(req, found)
        response == BuildResponse(results, FALSE, req.verify)
    IN IF ~skip_cache /\ got.hit
       THEN [log |-> QueryLog(req, FALSE, TRUE, got.value, << >>, << >>),
             queryStore |-> qs1, embStore |-> es]
       ELSE IF NoResults(found)
       THEN [log |-> QueryLog(req, FALSE, FALSE, NoDocumentsResponse, << >>, << >>),
             queryStore |-> qs1, embStore |-> es1]
       ELSE [log |-> QueryLog(req, FALSE, FALSE, response, <<results>>,
                              IF req.verify THEN <<results>> ELSE << >>),
             queryStore |-> IF skip_cache THEN qs1
                            ELSE SetQueryResult(qs1, req.query, req, response, t),
             embStore |-> es1]

\* No query_documents call yet.
NoQuery ==
    QueryLog(Request([query |-> << >>, top_k |-> 0, document_id |-> NoDoc,
                      rerank |-> FALSE], FALSE, FALSE),
             FALSE, FALSE, NoResponse, << >>, << >>)

\* The server has started on a stored index, and a client has a question.
InitQuery ==
    /\ index \in StoredIndexes
    /\ asked \in SessionKeys
    /\ nqueries = 0
    /\ qlog = NoQuery
    /\ answered = {}
    /\ queryStore = << >>
    /\ embStore = << >>
    /\ qry = EmptyBag
    /\ ing = {}
    /\ uploads = 0
    /\ returned = NothingReturned
    /\ CacheIdle
    /\ LLMIdle
    /\ RerankIdle
    /\ LoopIdle
    /\ LaterIdle

\* The client asks, and query_documents returns a response.
Ask(verify, skip_cache) ==
    /\ nqueries < MaxQueries
    /\ nqueries' = nqueries + 1
    /\ LET r == QueryDocuments(index, queryStore, embStore,
                               Request(asked, verify, skip_cache), now)
       IN /\ qlog' = r.log
          /\ queryStore' = r.queryStore
          /\ embStore' = r.embStore
    /\ UNCHANGED <<asked, answered, index, qry, ing, uploads, returned>>
    /\ UNCHANGED <<cacheVars, llmVars, rerankVars, loopVars, laterVars>>

\* The client asks, and query_documents raises ExternalServiceError out of
\* the collaborator `at`: the embedding generator (115), generate_answer
\* (140) or verify_answer (149).  Nothing is cached after line 115.
AskFails(verify, skip_cache, at) ==
    /\ nqueries < MaxQueries
    /\ LET req == Request(asked, verify, skip_cache)
           r == QueryDocuments(index, queryStore, embStore, req, now)
           embedded == GetEmbedding(embStore, QueryText(req.query), now).hit
       IN /\ ~r.log.from_cache
          /\ at = "embed" => ~embedded
          /\ at = "answer" => r.log.generated # << >>
          /\ at = "verify" => r.log.verified # << >>
          /\ qlog' = QueryLog(req, TRUE, FALSE, NoResponse,
                              IF at = "embed" THEN << >> ELSE r.log.generated,
                              IF at = "verify" THEN r.log.verified ELSE << >>)
          /\ queryStore' = IF SkipCache(req) THEN queryStore
                           ELSE GetQueryResult(queryStore, req.query, req, now).store
          /\ embStore' = IF at = "embed" THEN embStore ELSE r.embStore
    /\ nqueries' = nqueries + 1
    /\ UNCHANGED <<asked, answered, index, qry, ing, uploads, returned>>
    /\ UNCHANGED <<cacheVars, llmVars, rerankVars, loopVars, laterVars>>

NextQuery ==
    \/ \E verify, skip_cache \in BOOLEAN : Ask(verify, skip_cache)
    \/ \E verify, skip_cache \in BOOLEAN, at \in {"embed", "answer", "verify"} :
          AskFails(verify, skip_cache, at)

SpecQuery == InitQuery /\ [][NextQuery]_vars

\* ------------------------------------------------------------------------
\* compare_documents (rag_service.py 199-267) and the two comparison
\* generators (llm_service.py 220-282), checked under SpecCompare
\* ------------------------------------------------------------------------

\* The text the generation backend returns, as the pieces the structured
\* generator tells apart: an opening "```json\n" and a closing "\n```",
\* words that are no JSON, and one JSON value, of which only the type and,
\* for an object, the type of its "metadata" member matter.
JsonTypes == {"null", "number", "string", "array", "object"}
MemberTypes == {"absent", "null", "number", "string", "array", "object"}
Piece(kind, json, metadata) == [kind |-> kind, json |-> json, metadata |-> metadata]
FenceOpen == Piece("fence_open", "none", "absent")
FenceClose == Piece("fence_close", "none", "absent")
Prose == Piece("prose", "none", "absent")
JsonValue(json, metadata) == Piece("json", json, metadata)
JsonValues ==
    {JsonValue(j, "absent") : j \in JsonTypes \ {"object"}}
        \cup {JsonValue("object", m) : m \in MemberTypes}

\* What the backend answers: nothing, words, a JSON value alone, fenced, and
\* fenced after a sentence of introduction.
ResponseTexts ==
    {<< >>, <<Prose>>}
        \cup {<<v>> : v \in JsonValues}
        \cup {<<FenceOpen, v, FenceClose>> : v \in JsonValues}
        \cup {<<Prose, FenceOpen, v, FenceClose>> : v \in JsonValues}

\* chat_completion as compare_documents sees it: it returns the text, or
\* raises ExternalServiceError once its attempts are used up
\* (llm_service.py 191).
Backend(raises, text) == [raises |-> raises, text |-> text]
Backends ==
    {Backend(FALSE, t) : t \in ResponseTexts} \cup {Backend(TRUE, << >>)}

\* re.sub(r"```json\n?|\n?```", "", response).strip() (258).
StripFences(response) ==
    SelectSeq(response, LAMBDA p : p.kind \notin {"fence_open", "fence_close"})

\* json.loads (259): the text is one JSON value, or JSONDecodeError.
JsonLoads(cleaned) ==
    IF Len(cleaned) = 1 /\ cleaned[1].kind = "json"
    THEN [ok |-> TRUE, value |-> cleaned[1]]
    ELSE [ok |-> FALSE, value |-> Prose]

\* Only a dict has setdefault and update (260-261).
IsDict(type) == type = "object"

\* parsed.setdefault("metadata", {}): what parsed["metadata"] is afterwards.
SetDefaultMetadata(value) ==
    IF value.metadata = "absent" THEN "object" ELSE value.metadata

\* The value under "comparison": the text of the plain generator or the
\* fixed sentence, or a dict: the fixed empty one, the parsed one with its
\* metadata updated, or the skeleton with rawComparison.
Comparison(kind, doc1ChunksAnalyzed, doc2ChunksAnalyzed, parseError, rawComparison) ==
    [kind |-> kind, doc1ChunksAnalyzed |-> doc1ChunksAnalyzed,
     doc2ChunksAnalyzed |-> doc2ChunksAnalyzed, parseError |-> parseError,
     rawComparison |-> rawComparison]
NoComparison == Comparison("none", 0, 0, FALSE, << >>)

\* The dict of lines 219-228 and the string of line 230.
EmptyComparison(structured) ==
    Comparison(IF structured THEN "empty" ELSE "no_content", 0, 0, FALSE, << >>)

\* What a generator hands back: the comparison, or the exception it raised.
Generated(raised, comparison) == [raised |-> raised, comparison |-> comparison]

\* generate_comparison (220-236): the text of the one chat_completion call.
GenerateComparison(backend) ==
    IF backend.raises THEN Generated("ExternalServiceError", NoComparison)
    ELSE Generated("none", Comparison("text", 0, 0, FALSE, backend.text))

\* generate_structured_comparison (239-282): the one chat_completion call,
\* then the try block; its except clause catches JSONDecodeError and
\* ValueError, and nothing else.
GenerateStructuredComparison(doc1_chunks, doc2_chunks, backend) ==
    IF backend.raises THEN Generated("ExternalServiceError", NoComparison)
    ELSE LET loaded == JsonLoads(StripFences(backend.text))
         IN IF ~loaded.ok
            THEN Generated("none", Comparison("skeleton", Len(doc1_chunks),
                                              Len(doc2_chunks), TRUE, backend.text))
            ELSE IF ~IsDict(loaded.value.json)
            THEN Generated("AttributeError", NoComparison)
            ELSE IF ~IsDict(SetDefaultMetadata(loaded.value))
            THEN Generated("AttributeError", NoComparison)
            ELSE Generated("none", Comparison("parsed", Len(doc1_chunks),
                                              Len(doc2_chunks), FALSE, << >>))

\* build_sources (244-254).
BuildSources(results) ==
    [i \in 1..Len(results) |->
        [document_id |-> results[i].doc, chunk_index |-> results[i].batch]]

\* The dict compare_documents returns (229-235, 259-267).
CompareResult(comparison, structured, doc1_sources, doc2_sources, topic, document_ids) ==
    [comparison |-> comparison, structured |-> structured,
     doc1_sources |-> doc1_sources, doc2_sources |-> doc2_sources,
     topic |-> topic, documents_compared |-> document_ids]

\* `not doc1_results or not doc2_results` in the place of line 218.
EitherEmpty(doc1_results, doc2_results) ==
    doc1_results = << >> \/ doc2_results = << >>

\* `not doc1_results and not doc2_results` (218).
BothEmpty(doc1_results, doc2_results) ==
    doc1_results = << >> /\ doc2_results = << >>

\* The compare requests the route passes on (CompareRequest, validators.py
\* 41-58): two document ids, the same or not, stored or not.
CompareTopics == {"q1"}
CompareArgs(document_ids, topic, top_k, structured, backend) ==
    [document_ids |-> document_ids, topic |-> topic, top_k |-> top_k,
     structured |-> structured, backend |-> backend]

\* A compare_documents call and its outcome: the chat_completion calls it
\* made, the exception it raised, the dict it returned.
Compared(done, calls, raised, result) ==
    [done |-> done, calls |-> calls, raised |-> raised, result |-> result]
NotCompared ==
    Compared(FALSE, 0, "none",
             CompareResult(NoComparison, FALSE, << >>, << >>, "", <<0, 0>>))

\* A request reaches compare_documents: the index holds what earlier ingests
\* left, the topic may have been embedded before.
InitCompare ==
    /\ cmp_args \in {CompareArgs(<<d1, d2>>, t, k, s, b) :
                        d1 \in Docs, d2 \in Docs, t \in CompareTopics,
                        k \in 1..MaxTopN, s \in BOOLEAN, b \in Backends}
    /\ cmp_out = NotCompared
    /\ index \in SUBSET Chunks
    /\ queryStore = << >>
    /\ embStore \in {<< >>} \cup
                    {SetEmbedding(<< >>, QueryText(t), 0) : t \in CompareTopics}
    /\ qry = EmptyBag
    /\ ing = {}
    /\ uploads = 0
    /\ returned = NothingReturned
    /\ CacheIdle
    /\ LLMIdle
    /\ RerankIdle
    /\ SessionIdle
    /\ LoopIdle
    /\ ParseIdle
    /\ ChunkIdle
    /\ FinalIdle

\* compare_documents (199-267): the topic is embedded (from the embedding
\* cache, or generated and cached), both documents are searched, and either
\* the fixed result is returned or one generator is called.
CompareDocuments ==
    /\ ~cmp_out.done
    /\ LET a == cmp_args
           emb == GetEmbedding(embStore, QueryText(a.topic), now)
           doc1_results == SearchSimilar(index, a.document_ids[1], a.top_k)
           doc2_results == SearchSimilar(index, a.document_ids[2], a.top_k)
           g == IF a.structured
                THEN GenerateStructuredComparison(doc1_results, doc2_results, a.backend)
                ELSE GenerateComparison(a.backend)
       IN /\ embStore' = IF emb.hit THEN emb.store
                         ELSE SetEmbedding(emb.store, QueryText(a.topic), now)
          /\ cmp_out' =
                IF BothEmpty(doc1_results, doc2_results)
                THEN Compared(TRUE, 0, "none",
                              CompareResult(EmptyComparison(a.structured), a.structured,
                                            << >>, << >>, a.topic, a.document_ids))
                ELSE IF g.raised # "none"
                THEN Compared(TRUE, 1, g.raised, NotCompared.result)
                ELSE Compared(TRUE, 1, "none",
                              CompareResult(g.comparison, a.structured,
                                            BuildSources(doc1_results),
                                            BuildSources(doc2_results),
                                            a.topic, a.document_ids))
    /\ UNCHANGED <<cmp_args, index, queryStore, qry, ing, uploads, returned>>
    /\ UNCHANGED <<cacheVars, llmVars, rerankVars, sessionVars, loopVars>>
    /\ UNCHANGED <<parseVars, chunkVars, finalVars>>

NextCompare == CompareDocuments

SpecCompare == InitCompare /\ [][NextCompare]_vars

\* ------------------------------------------------------------------------
\* query_documents with verify (rag_service.py 145-151, 184-185) and
\* verify_answer (llm_service.py 285-306), checked under SpecVerify
\* ------------------------------------------------------------------------

\* The JSON value of a verification text: its type and whether it is falsy in
\* Python (None, 0, "", [] and {}).
Verdict(json, falsy) == [kind |-> "json", json |-> json, falsy |-> falsy]
Verdicts ==
    {Verdict("null", TRUE)}
        \cup {Verdict(j, f) : j \in JsonTypes \ {"null"}, f \in BOOLEAN}

\* What the backend answers to the verification prompt: nothing, words, a
\* JSON value alone, fenced, and fenced after a sentence of introduction.
VerifyTexts ==
    {<< >>, <<Prose>>}
        \cup {<<v>> : v \in Verdicts}
        \cup {<<FenceOpen, v, FenceClose>> : v \in Verdicts}
        \cup {<<Prose, FenceOpen, v, FenceClose>> : v \in Verdicts}

\* The dict of lines 301-306.
VerificationFailed(response) ==
    [kind |-> "parsing_failed", json |-> "object", falsy |-> FALSE,
     rawResponse |-> response]

\* What json.loads made of the text (299).
VerificationLoaded(value) ==
    [kind |-> "loaded", json |-> value.json, falsy |-> value.falsy,
     rawResponse |-> << >>]

\* verification = None (146).
NoVerification ==
    [kind |-> "none", json |-> "null", falsy |-> TRUE, rawResponse |-> << >>]

\* verify_answer (285-306) on the text of its chat_completion call: whatever
\* json.loads returns, or the dict of the except clause.
VerifyAnswer(response) ==
    LET loaded == JsonLoads(StripFences(response))
    IN IF loaded.ok THEN VerificationLoaded(loaded.value)
       ELSE VerificationFailed(response)

\* verification.get (150-151): only a dict has it.
HasGet(verification) == IsDict(verification.json)

\* `if verification` (184).
Truthy(verification) == ~verification.falsy

\* A query_documents call and its outcome: the exception it raised, the
\* response it returned, and the value under "verification" when the
\* response has the key.
VerifiedQuery(done, raised, response, verification) ==
    [done |-> done, raised |-> raised, response |-> response,
     verification |-> verification]
NoVerifiedQuery == VerifiedQuery(FALSE, "none", NoResponse, NoVerification)

\* A query reaches query_documents on a stored index; the backend will
\* answer the verification prompt with the text, or fail.
InitVerify ==
    /\ vf_args \in [req : {Request(k, v, FALSE) : k \in SessionKeys, v \in BOOLEAN},
                    backend : {Backend(FALSE, t) : t \in VerifyTexts}
                                  \cup {Backend(TRUE, << >>)}]
    /\ vf_out = NoVerifiedQuery
    /\ index \in StoredIndexes
    /\ queryStore = << >>
    /\ embStore = << >>
    /\ qry = EmptyBag
    /\ ing = {}
    /\ uploads = 0
    /\ returned = NothingReturned
    /\ CacheIdle
    /\ LLMIdle
    /\ RerankIdle
    /\ SessionIdle
    /\ LoopIdle
    /\ ParseIdle
    /\ ChunkIdle
    /\ CompareIdle
    /\ EmbedIdle
    /\ MetaIdle

\* query_documents (87-192): the pipeline up to the answer, then lines
\* 146-151 and 184-185 when verify is set and something was retrieved.
QueryWithVerify ==
    /\ ~vf_out.done
    /\ LET req == vf_args.req
           r == QueryDocuments(index, queryStore, embStore, req, now)
           verifies == req.verify /\ r.log.verified # << >>
           verification == VerifyAnswer(vf_args.backend.text)
       IN IF ~verifies
          THEN /\ vf_out' = VerifiedQuery(TRUE, "none", r.log.response, NoVerification)
               /\ queryStore' = r.queryStore
               /\ embStore' = r.embStore
          ELSE /\ embStore' = r.embStore
               /\ UNCHANGED queryStore
               /\ vf_out' =
                     IF vf_args.backend.raises
                     THEN VerifiedQuery(TRUE, "ExternalServiceError", NoResponse,
                                        NoVerification)
                     ELSE IF ~HasGet(verification)
                     THEN VerifiedQuery(TRUE, "AttributeError", NoResponse,
                                        NoVerification)
                     ELSE VerifiedQuery(TRUE, "none",
                                        [r.log.response EXCEPT
                                            !.verified = Truthy(verification)],
                                        IF Truthy(verification) THEN verification
                                        ELSE NoVerification)
    /\ UNCHANGED <<vf_args, index, qry, ing, uploads, returned>>
    /\ UNCHANGED <<cacheVars, llmVars, rerankVars, sessionVars, loopVars>>
    /\ UNCHANGED <<parseVars, chunkVars, compareVars, embedVars, metaVars>>

NextVerify == QueryWithVerify

SpecVerify == InitVerify /\ [][NextVerify]_vars

\* ------------------------------------------------------------------------
\* generate_embeddings_batched (embedding_service.py 83-131) with
\* get_embeddings_batch / set_embeddings_batch (cache_service.py 102-114),
\* checked under SpecEmbed
\* ------------------------------------------------------------------------

\* The texts: two chunks and a blank one.
BlankText == " "
EmbedTexts == {"a", "b", BlankText}
TextLists == UNION {[1..n -> EmbedTexts] : n \in 0..MaxTexts}

\* batch_size: 1, 2 and the 20 of the ingest (rag_service.py 57).
BatchSizes == {1, 2, 20}

\* generate_embeddings line 67: a blank text is replaced.
ValidText(text) == IF text = BlankText THEN "[empty]" ELSE text

\* The vector the embedding generator makes of a text, and the None that
\* fills results at line 95.
EmbeddingVector(text) == [of |-> ValidText(text)]
NoVector == [of |-> "None"]

\* generate_embeddings (58-78) on a batch: a vector for each text, in order.
GenerateEmbeddings(batch) == [j \in 1..Len(batch) |-> EmbeddingVector(batch[j])]

\* cache_service.set_embedding with the vector kept.
SetEmbeddingTo(s, text, embedding, t) ==
    TTLSet(s, EmbeddingKey(text), embedding, 0, t, MAX_EMBEDDING_KEYS, EMBEDDING_TTL).store

\* get_embeddings_batch (102-110) from position i on: the texts that hit,
\* and the cache after the gets (an expired entry is deleted by its get).
RECURSIVE GetEmbeddingsBatchFrom(_, _, _, _, _)
GetEmbeddingsBatchFrom(s, texts, i, hits, t) ==
    IF i > Len(texts) THEN [hits |-> hits, store |-> s]
    ELSE LET got == TTLGet(s, EmbeddingKey(texts[i]), t)
         IN GetEmbeddingsBatchFrom(got.store, texts, i + 1,
                                   IF got.hit THEN hits \cup {texts[i]} ELSE hits, t)

GetEmbeddingsBatch(s, texts, t) == GetEmbeddingsBatchFrom(s, texts, 1, {}, t)

\* `text in hits` that never holds.
InHitsNever(text, hits) == FALSE

\* `text in hits` (102).
InHits(text, hits) == text \in hits

\* indices_to_fill (101-106): the positions of the texts that missed, in
\* order; texts_to_generate holds the texts at these positions.
RECURSIVE IndicesToFillFrom(_, _, _)
IndicesToFillFrom(texts, hits, i) ==
    IF i > Len(texts) THEN << >>
    ELSE (IF InHits(texts[i], hits) THEN << >> ELSE <<i>>)
             \o IndicesToFillFrom(texts, hits, i + 1)

IndicesToFill(texts, hits) == IndicesToFillFrom(texts, hits, 1)

\* min(a, b).
Min(a, b) == IF a <= b THEN a ELSE b

\* The slices of lines 118-119: texts_to_generate[i : i + batch_size] for i
\* in range(0, len, batch_size), batch_size >= 1.
RECURSIVE SubBatchesFrom(_, _, _)
SubBatchesFrom(texts_to_generate, batch_size, i) ==
    IF i >= Len(texts_to_generate) THEN << >>
    ELSE <<SubSeq(texts_to_generate, i + 1,
                  Min(i + batch_size, Len(texts_to_generate)))>>
             \o SubBatchesFrom(texts_to_generate, batch_size, i + batch_size)

SubBatches(texts_to_generate, batch_size) ==
    SubBatchesFrom(texts_to_generate, batch_size, 0)

\* generated (117-121): the vectors of every batch, one after the other.
RECURSIVE Extend(_, _)
Extend(batches, k) ==
    IF k > Len(batches) THEN << >>
    ELSE GenerateEmbeddings(batches[k]) \o Extend(batches, k + 1)

\* set_embeddings_batch (112-114) over to_cache (124-128): a dict keeps the
\* first place of a text and its last vector.
RECURSIVE SetEmbeddingsBatchFrom(_, _, _, _, _)
SetEmbeddingsBatchFrom(s, texts_to_generate, generated, j, t) ==
    IF j > Len(texts_to_generate) THEN s
    ELSE LET text == texts_to_generate[j]
             fresh == \A h \in 1..(j - 1) : texts_to_generate[h] # text
             final == CHOOSE h \in j..Len(texts_to_generate) :
                        /\ texts_to_generate[h] = text
                        /\ \A g \in (h + 1)..Len(texts_to_generate) :
                              texts_to_generate[g] # text
         IN SetEmbeddingsBatchFrom(
                IF fresh THEN SetEmbeddingTo(s, text, generated[final], t) ELSE s,
                texts_to_generate, generated, j + 1, t)

\* The arguments of a call, with what the embedding cache holds of each
\* text before it and whether the generator fails.
EmbedArgs(texts, batch_size, cached, fails) ==
    [texts |-> texts, batch_size |-> batch_size, cached |-> cached, fails |-> fails]

\* What the call did: the list it returned or ExternalServiceError, and the
\* batches generate_embeddings was called with.
Embedded(done, raised, results, batches) ==
    [done |-> done, raised |-> raised, results |-> results, batches |-> batches]
NotEmbedded == Embedded(FALSE, FALSE, << >>, << >>)

\* The embedding cache of a process that embedded some texts a day and more
\* ago and some just now.
RECURSIVE CacheOf(_, _)
CacheOf(cached, todo) ==
    IF todo = {} THEN << >>
    ELSE LET text == CHOOSE x \in todo : TRUE
             rest == CacheOf(cached, todo \ {text})
         IN IF cached[text] = "fresh"
            THEN SetEmbeddingTo(rest, text, EmbeddingVector(text), 0)
            ELSE IF cached[text] = "expired"
            THEN SetEmbeddingTo(rest, text, EmbeddingVector(text), 0 - EMBEDDING_TTL - 1)
            ELSE rest

InitEmbed ==
    /\ eb_args \in {EmbedArgs(texts, b, c, f) :
                       texts \in TextLists, b \in BatchSizes,
                       c \in [EmbedTexts -> {"absent", "fresh", "expired"}],
                       f \in BOOLEAN}
    /\ eb_out = NotEmbedded
    /\ embStore = CacheOf(eb_args.cached, EmbedTexts)
    /\ index = {}
    /\ queryStore = << >>
    /\ qry = EmptyBag
    /\ ing = {}
    /\ uploads = 0
    /\ returned = NothingReturned
    /\ CacheIdle
    /\ LLMIdle
    /\ RerankIdle
    /\ SessionIdle
    /\ LoopIdle
    /\ ParseIdle
    /\ ChunkIdle
    /\ CompareIdle
    /\ VerifyIdle
    /\ MetaIdle

\* generate_embeddings_batched(texts, batch_size) (83-131), skip_cache left
\* at its default as the ingest leaves it.
GenerateEmbeddingsBatched ==
    /\ ~eb_out.done
    /\ LET texts == eb_args.texts
           got == GetEmbeddingsBatch(embStore, texts, now)
           indices_to_fill == IndicesToFill(texts, got.hits)
           texts_to_generate == [j \in 1..Len(indices_to_fill) |->
                                    texts[indices_to_fill[j]]]
           batches == SubBatches(texts_to_generate, eb_args.batch_size)
           generated == Extend(batches, 1)
           cachedVector(text) == TTLGet(got.store, EmbeddingKey(text), now).value
           results == [i \in 1..Len(texts) |->
                          IF InHits(texts[i], got.hits) THEN cachedVector(texts[i])
                          ELSE LET j == CHOOSE h \in 1..Len(indices_to_fill) :
                                            indices_to_fill[h] = i
                               IN generated[j]]
       IN IF texts = << >>
          THEN /\ eb_out' = Embedded(TRUE, FALSE, << >>, << >>)
               /\ UNCHANGED embStore
          ELSE IF texts_to_generate = << >>
          THEN /\ eb_out' = Embedded(TRUE, FALSE, results, << >>)
               /\ embStore' = got.store
          ELSE IF eb_args.fails
          THEN /\ eb_out' = Embedded(TRUE, TRUE, << >>, <<batches[1]>>)
               /\ embStore' = got.store
          ELSE /\ eb_out' = Embedded(TRUE, FALSE, results, batches)
               /\ embStore' = SetEmbeddingsBatchFrom(got.store, texts_to_generate,
                                                     generated, 1, now)
    /\ UNCHANGED <<eb_args, index, queryStore, qry, ing, uploads, returned>>
    /\ UNCHANGED <<cacheVars, llmVars, rerankVars, sessionVars, loopVars>>
    /\ UNCHANGED <<parseVars, chunkVars, compareVars, verifyVars, metaVars>>

NextEmbed == GenerateEmbeddingsBatched

SpecEmbed == InitEmbed /\ [][NextEmbed]_vars

\* ------------------------------------------------------------------------
\* create_chunk_metadata (chunking_service.py 83-101), checked under
\* SpecMetadata
\* ------------------------------------------------------------------------

\* The chunks of a document, as lists of words (none in a blank chunk); two
\* chunks can be alike.
MetaChunks == {<< >>, <<"a">>, <<"a", "b">>}
MetaChunkLists == UNION {[1..n -> MetaChunks] : n \in 0..MaxChunks}
MetaFilenames == {"f.txt", "g.pdf"}

\* f"{document_id}_chunk_{i}" (92): the text of the id and of the index
\* around a fixed infix.
ChunkId(document_id, i) == <<document_id, "_chunk_", i>>

\* _count_words (111-114): len(text.strip().split()), 0 for a blank text.
CountWords(chunk) == Len(chunk)

\* enumerate that counts from 1.
EnumerateFromOne(n) == n

\* The index enumerate gives the n-th chunk (100).
Enumerate(n) == n - 1

\* create_chunk_metadata (89-101).
CreateChunkMetadata(document_id, filename, chunks) ==
    LET total == Len(chunks)
    IN [n \in 1..Len(chunks) |->
           [chunk_id |-> ChunkId(document_id, Enumerate(n)),
            document_id |-> document_id,
            filename |-> filename,
            chunk_index |-> Enumerate(n),
            total_chunks |-> total,
            text |-> chunks[n],
            word_count |-> CountWords(chunks[n])]]

\* The arguments of a call and what it returned.
MetaArgs(document_id, filename, chunks) ==
    [document_id |-> document_id, filename |-> filename, chunks |-> chunks]
MetaOut(done, records) == [done |-> done, records |-> records]
NoMetadata == MetaOut(FALSE, << >>)

InitMetadata ==
    /\ md_args \in {MetaArgs(d, f, c) : d \in Docs, f \in MetaFilenames,
                                       c \in MetaChunkLists}
    /\ md_out = NoMetadata
    /\ CacheIdle
    /\ LLMIdle
    /\ RagIdle
    /\ RerankIdle
    /\ SessionIdle
    /\ LoopIdle
    /\ ParseIdle
    /\ ChunkIdle
    /\ CompareIdle
    /\ VerifyIdle
    /\ EmbedIdle

\* create_chunk_metadata is called (rag_service.py 54).
CallCreateChunkMetadata ==
    /\ ~md_out.done
    /\ md_out' = MetaOut(TRUE, CreateChunkMetadata(md_args.document_id,
                                                   md_args.filename, md_args.chunks))
    /\ UNCHANGED md_args
    /\ UNCHANGED <<cacheVars, llmVars, ragVars, rerankVars, sessionVars, loopVars>>
    /\ UNCHANGED <<parseVars, chunkVars, compareVars, verifyVars, embedVars>>

NextMetadata == CallCreateChunkMetadata

SpecMetadata == InitMetadata /\ [][NextMetadata]_vars

\* ------------------------------------------------------------------------
\* SpecAsk: query_documents (rag_service.py 87-192) as the query route calls
\* it (routes/query.py 20-28), for a client that keeps its question, top_k
\* and rerank, and changes one of document_id, include_metadata, temperature
\* and verify at a time; nothing is ingested or deleted meanwhile and no
\* collaborator fails.
\* ------------------------------------------------------------------------

\* temperature = None (91), and llm_config.TEMPERATURE in tenths.
NoTemperature == -1
TEMPERATURE == 1

\* The temperatures a request gives: none, or 1.0.
Temperatures == {NoTemperature, 10}

\* The scopes of a request: no document, or any document id.
AskScopes == {NoDoc} \cup Docs

\* The arguments the route passes: skip_cache stays at its default.
AskRequest(key, document_id, rerank, include_metadata, temperature, verify) ==
    [query |-> key.query, top_k |-> key.top_k, document_id |-> document_id,
     rerank |-> rerank, include_metadata |-> include_metadata,
     temperature |-> temperature, verify |-> verify, skip_cache |-> FALSE]

\* chat_completion line 146: the temperature sent to the backend.
EffectiveTemperature(temperature) ==
    IF temperature # NoTemperature THEN temperature ELSE TEMPERATURE

\* The answer of the backend: it depends on the passages of the prompt and
\* on the temperature.
Answer(passages, temperature) == [passages |-> passages, temperature |-> temperature]
NoAnswer == Answer(<< >>, NoTemperature)

\* `r.get("rerank_score") is not None` (163).
HasRerankScore(r) == "rerank_score" \in DOMAIN r

\* The citation of a result (156-169): rerank_score and original_rank only
\* when the result has a rerank_score, the preview only with
\* include_metadata.
Source(r, include_metadata) ==
    [document_id |-> r.chunk_id.doc, chunk_index |-> r.chunk_id.batch,
     similarity_score |-> r.similarity_score,
     has_rerank_score |-> HasRerankScore(r),
     rerank_score |-> IF HasRerankScore(r) THEN r.rerank_score ELSE NoScore,
     original_rank |-> IF HasRerankScore(r) THEN r.original_rank ELSE 0,
     has_preview |-> include_metadata]

\* The response dict (174-185), and the fixed one of lines 125-130.
AskResponse(kind, answer, sources, reranked, verified) ==
    [kind |-> kind, answer |-> answer, sources |-> sources,
     reranked |-> reranked, verified |-> verified]
NothingFound == AskResponse("no_documents", NoAnswer, << >>, FALSE, FALSE)
NotAsked == AskResponse("none", NoAnswer, << >>, FALSE, FALSE)

\* What a call did: its arguments, whether the response came from the
\* cache, the response, and whether it called the embedding generator, the
\* index, generate_answer and verify_answer.
AskLog(req, from_cache, response, embedded, searched, generated, verified) ==
    [req |-> req, from_cache |-> from_cache, response |-> response,
     embedded |-> embedded, searched |-> searched, generated |-> generated,
     verified |-> verified]

\* query_documents (87-192) called with req on index idx, with the query
\* cache qs and the embedding cache es at time t: what it did, and the
\* caches afterwards.
QueryPipeline(idx, qs, es, req, t) ==
    LET skip_cache == SkipCache(req)
        got == GetQueryResult(qs, req.query, req, t)
        qs1 == IF skip_cache THEN qs ELSE got.store
        emb == GetEmbedding(es, QueryText(req.query), t)
        es1 == IF emb.hit THEN emb.store
               ELSE SetEmbedding(emb.store, QueryText(req.query), t)
        found == Search(idx, req)
        results == Select(req, found)
        answer == Answer(results, EffectiveTemperature(req.temperature))
        sources == [i \in 1..Len(results) |-> Source(results[i], req.include_metadata)]
        response == AskResponse("answer", answer, sources, req.rerank, req.verify)
    IN IF ~skip_cache /\ got.hit
       THEN [log |-> AskLog(req, TRUE, got.value, FALSE, FALSE, FALSE, FALSE),
             queryStore |-> qs1, embStore |-> es]
       ELSE IF NoResults(found)
       THEN [log |-> AskLog(req, FALSE, NothingFound, ~emb.hit, TRUE, FALSE, FALSE),
             queryStore |-> qs1, embStore |-> es1]
       ELSE [log |-> AskLog(req, FALSE, response, ~emb.hit, TRUE, TRUE, req.verify),
             queryStore |-> IF skip_cache THEN qs1
                            ELSE SetQueryResult(qs1, req.query, req, response, t),
             embStore |-> es1]

\* No call yet.
NoAsk ==
    AskLog(AskRequest([query |-> << >>, top_k |-> 0], NoDoc, FALSE, FALSE,
                      NoTemperature, FALSE),
           FALSE, NotAsked, FALSE, FALSE, FALSE, FALSE)

\* The calls of a session.
MaxAsks == MaxQueries + 1

\* The server has started on a stored index, and a client has a question
\* about document 0, with or without re-ranking.
InitAsk ==
    /\ index \in StoredIndexes
    /\ asked \in {k \in SessionKeys : k.document_id = 0}
    /\ nqueries = 0
    /\ qlog = NoAsk
    /\ answered = {}
    /\ queryStore = << >>
    /\ embStore = << >>
    /\ qry = EmptyBag
    /\ ing = {}
    /\ uploads = 0
    /\ returned = NothingReturned
    /\ CacheIdle
    /\ LLMIdle
    /\ RerankIdle
    /\ LoopIdle
    /\ LaterIdle

\* The client asks, and query_documents returns a response.
AskWith(document_id, include_metadata, temperature, verify) ==
    /\ nqueries < MaxAsks
    /\ nqueries' = nqueries + 1
    /\ LET r == QueryPipeline(index, queryStore, embStore,
                              AskRequest(asked, document_id, asked.rerank,
                                         include_metadata, temperature, verify),
                              now)
       IN /\ qlog' = r.log
          /\ queryStore' = r.queryStore
          /\ embStore' = r.embStore
          /\ answered' = IF ~verify /\ r.log.response.kind = "answer"
                         THEN answered \cup {document_id}
                         ELSE answered
    /\ UNCHANGED <<asked, index, qry, ing, uploads, returned>>
    /\ UNCHANGED <<cacheVars, llmVars, rerankVars, loopVars, laterVars>>

\* The question as the route's defaults give it (validators.py 19-23).
AskPlain == AskWith(asked.document_id, TRUE, NoTemperature, FALSE)

\* The same question in another scope.
AskOtherScope ==
    \E document_id \in AskScopes \ {asked.document_id} :
        AskWith(document_id, TRUE, NoTemperature, FALSE)

\* The same question without the previews.
AskWithoutMetadata == AskWith(asked.document_id, FALSE, NoTemperature, FALSE)

\* The same question at a temperature.
AskAtTemperature ==
    \E temperature \in Temperatures \ {NoTemperature} :
        AskWith(asked.document_id, TRUE, temperature, FALSE)

\* The same question with verification.
AskVerified == AskWith(asked.document_id, TRUE, NoTemperature, TRUE)

NextAsk ==
    \/ AskPlain
    \/ AskOtherScope
    \/ AskWithoutMetadata
    \/ AskAtTemperature
    \/ AskVerified

SpecAsk == InitAsk /\ [][NextAsk]_vars

\* ========================================================================
\* Properties of the cache tier (checked under SpecCache)
\* ========================================================================

\* The entries of dict s that are unexpired at time t.
LiveAt(s, t) == {i \in 1..Len(s) : s[i].exp >= t}

\* C3: get(key) never returns a value whose expiresAt is earlier than the
\* current time: it returns the value of the key's unexpired entry, and
\* absent when the key has no entry or only an expired one (removed or not);
\* size counts exactly the unexpired entries.
CacheExpiryLaw ==
    [][ /\ (last'.op = "get" =>
              LET live == {i \in LiveAt(store, now) : store[i].key = last'.key}
              IN IF live = {}
                 THEN last'.result = None
                 ELSE \E i \in live : /\ last'.result = store[i].value
                                      /\ last'.exp >= now')
        /\ (last'.op = "size" =>
              last'.result = Cardinality(LiveAt(store, now)))
      ]_vars

\* A get found an entry that had expired and was still stored, and
\* returned absent.
CacheExpiryWitness ==
    /\ last.op = "get"
    /\ last.result = None
    /\ last.exp >= 0
    /\ last.exp < now

\* C4: with max_keys >= 1 the tier never holds more than max_keys entries
\* once an operation has completed.
CacheCapacityBound == max_keys >= 1 => Len(store) <= max_keys

\* A set has just filled the tier to max_keys entries after evicting one.
CacheCapacityWitness ==
    /\ max_keys >= 1
    /\ last.op = "set"
    /\ last.evicted = 1
    /\ Len(store) = max_keys

\* C5: a set on a tier holding max_keys entries first removes every expired
\* entry; it evicts a live entry only if none was expired, and then exactly
\* one: the first key of the dict, the one inserted earliest.
CacheEvictionOrder ==
    [][ (last'.op = "set" /\ max_keys >= 1 /\ Len(store) >= max_keys) =>
          LET k == last'.key
              old == StoreKeys(store)
              expired == {store[i].key : i \in (1..Len(store)) \ LiveAt(store, now)}
          IN /\ last'.swept = Cardinality(expired)
             /\ (expired \ {k}) \cap StoreKeys(store') = {}
             /\ expired # {} =>
                  /\ last'.evicted = 0
                  /\ StoreKeys(store') = (old \ expired) \cup {k}
             /\ expired = {} =>
                  /\ last'.evicted = 1
                  /\ StoreKeys(store') = (old \ {store[1].key}) \cup {k}
      ]_vars

\* A set on a full tier of two or more live entries evicted exactly one.
CacheEvictionWitness ==
    /\ max_keys >= 2
    /\ last.op = "set"
    /\ last.swept = 0
    /\ last.evicted = 1
    /\ last.key \in StoreKeys(store)

\* ========================================================================
\* Properties of chat_completion (checked under SpecLLM)
\* ========================================================================

\* Attempt n was answered and attempt n + 1 is made: it has been made, or
\* the loop stands at n + 1.
Retried(n) == Len(responses) > n \/ (llm_pc = "loop" /\ attempt = n + 1)

\* Attempt n was the last thing chat_completion did before it failed: no
\* wait after it and no further call.
FailedAt(n) ==
    /\ Len(responses) = n
    /\ Len(sleeps) = n - 1
    /\ llm_pc = "failed"
    /\ llm_result = "ExternalServiceError"

\* A 2xx response whose body could be read.
IsGoodResponse(o) == o.kind = "status" /\ o.status = 200 /\ o.body

\* C6: chat_completion makes at most RETRY_ATTEMPTS backend calls, and it
\* returns the text of the first call that succeeds, with no call after it.
AttemptBound ==
    /\ Len(responses) <= RETRY_ATTEMPTS
    /\ \A i \in 1..(Len(responses) - 1) : ~IsGoodResponse(responses[i])
    /\ \A i \in 1..Len(responses) :
         IsGoodResponse(responses[i]) =>
            /\ llm_pc = "returned"
            /\ llm_result = responses[i].text
    /\ llm_pc = "returned" => IsGoodResponse(responses[Len(responses)])

\* The call returned the text of its last permitted attempt.
AttemptBoundWitness ==
    /\ llm_pc = "returned"
    /\ Len(responses) = RETRY_ATTEMPTS
    /\ llm_result = "t2"

\* C7: a status >= 500 on attempt n < RETRY_ATTEMPTS is followed by a wait
\* of exactly RETRY_DELAY * 2^(n-1) and by attempt n + 1; on attempt
\* n = RETRY_ATTEMPTS the call fails without waiting or retrying.  A backend
\* answering 503, 503, 200 succeeds on the third attempt after waits of
\* RETRY_DELAY and 2 * RETRY_DELAY.
ServerErrorBackoff ==
    /\ \A n \in 1..Len(responses) :
         (responses[n].kind = "status" /\ responses[n].status >= 500) =>
            IF n < RETRY_ATTEMPTS
            THEN /\ Len(sleeps) >= n
                 /\ sleeps[n] = RETRY_DELAY * (2 ^ (n - 1))
                 /\ Retried(n)
            ELSE FailedAt(n)
    /\ ( /\ Len(responses) = 3
         /\ responses[1].status = 503
         /\ responses[2].status = 503
         /\ IsGoodResponse(responses[3]) ) =>
            /\ llm_pc = "returned"
            /\ sleeps = <<RETRY_DELAY, 2 * RETRY_DELAY>>

\* The backend answered 503, 503, 200 and the call returned.
ServerErrorBackoffWitness ==
    /\ Len(responses) = 3
    /\ responses[1].status = 503
    /\ responses[2].status = 503
    /\ responses[3].status = 200
    /\ llm_pc = "returned"

\* C8: a 429 on attempt n is followed by a wait - of the Retry-After
\* header's seconds when the header gives a whole number of them, of
\* RETRY_DELAY when the header is absent - and by attempt n + 1 whenever
\* n < RETRY_ATTEMPTS; the attempts never exceed RETRY_ATTEMPTS.
RateLimitRetry ==
    /\ Len(responses) <= RETRY_ATTEMPTS
    /\ \A n \in 1..Len(responses) :
         (responses[n].kind = "status" /\ responses[n].status = 429) =>
            /\ Len(sleeps) >= n
            /\ responses[n].header = "seconds" =>
                  sleeps[n] = responses[n].seconds * MsPerSecond
            /\ responses[n].header = "absent" => sleeps[n] = RETRY_DELAY
            /\ n < RETRY_ATTEMPTS => Retried(n)

\* C9: a 4xx other than 429 on any attempt ends the call at once: no wait,
\* no further backend call, ExternalServiceError.
ClientErrorNoRetry ==
    \A n \in 1..Len(responses) :
        ( /\ responses[n].kind = "status"
          /\ responses[n].status >= 400
          /\ responses[n].status <= 499
          /\ responses[n].status # 429 ) => FailedAt(n)

\* A 404 answered the second attempt, after a retried first one.
ClientErrorNoRetryWitness ==
    /\ Len(responses) = 2
    /\ responses[2].status = 404
    /\ llm_pc = "failed"

\* A backend call that failed without an HTTP error status: the post raised,
\* or the body of a 2xx response could not be read.
IsNonStatusFailure(o) == o.kind = "network" \/ (o.status = 200 /\ ~o.body)

\* C10 as stated: a failure that is not an HTTP status error ends the call
\* at once, with no wait and no retry, whatever attempts remain.
OtherFailureNoRetry ==
    \A n \in 1..Len(responses) :
        IsNonStatusFailure(responses[n]) => FailedAt(n)

\* C10 amended: a failure that is not an HTTP status error on attempt
\* n < RETRY_ATTEMPTS is followed by a wait of RETRY_DELAY * 2^(n-1) and by
\* attempt n + 1; only on attempt n = RETRY_ATTEMPTS does the call fail at
\* once, without waiting.
OtherFailureBackoff ==
    \A n \in 1..Len(responses) :
        IsNonStatusFailure(responses[n]) =>
            IF n < RETRY_ATTEMPTS
            THEN /\ Len(sleeps) >= n
                 /\ sleeps[n] = RETRY_DELAY * (2 ^ (n - 1))
                 /\ Retried(n)
            ELSE FailedAt(n)

\* Every permitted attempt ended in a network error.
OtherFailureBackoffWitness ==
    /\ Len(responses) = RETRY_ATTEMPTS
    /\ \A n \in 1..Len(responses) : responses[n].kind = "network"
    /\ sleeps = <<RETRY_DELAY, 2 * RETRY_DELAY>>
    /\ llm_pc = "failed"

\* C11: when every permitted attempt has failed, chat_completion raises
\* ExternalServiceError (once: the call is over) whose detail is the failure
\* of the last attempt made; and it never returns normally unless its last
\* backend call succeeded.
ExhaustionRaisesServiceError ==
    /\ ( /\ Len(responses) = RETRY_ATTEMPTS
         /\ \A n \in 1..Len(responses) : ~IsGoodResponse(responses[n]) ) =>
            /\ llm_pc = "failed"
            /\ llm_result = "ExternalServiceError"
            /\ last_error = responses[Len(responses)]
    /\ llm_pc = "returned" =>
            /\ Len(responses) >= 1
            /\ IsGoodResponse(responses[Len(responses)])
            /\ llm_result = responses[Len(responses)].text

\* ========================================================================
\* Properties of the orchestrator (checked under Spec)
\* ========================================================================

\* C1: a query that starts after an ingest_document or delete_document call
\* has returned is never served, from the query cache, a response computed
\* from index contents that predate that call - also when another query was
\* suspended while the call ran and cached its response afterwards.  (An
\* entry that is stale was cached after the flush of the call that made it
\* so, and is served to a query that starts later still.)
NoStaleCacheHit ==
    (returned.op = "query" /\ returned.from_cache) => ~returned.response.stale

\* C2: immediately after ingest_document or delete_document returns
\* successfully the query cache holds no entry: every result cached before
\* the call, whatever document it was scoped to, is a miss.
QueryCacheFlushed ==
    (returned.op \in {"ingest", "delete"} /\ returned.ok) =>
        /\ queryStore = << >>
        /\ \A req \in Requests :
              ~GetQueryResult(queryStore, req.query, req, now).hit

\* The delete of document 1 has just returned: it flushed a result scoped to
\* document 0, which is still in the index.
QueryCacheFlushedWitness ==
    /\ returned.op = "delete"
    /\ returned.ok
    /\ returned.doc = 1
    /\ 0 \in returned.flushed
    /\ \E c \in index : c.doc = 0
    /\ queryStore = << >>

\* C15: whenever ingest_document or delete_document changes the contents of
\* the vector index - also an ingest that raises after some but not all of
\* its store batches were written - the query cache is empty when the call
\* returns or raises.  (store_chunks and col.delete never suspend: the index
\* changes in the step that ends the call.)
IndexChangeFlushes == [][index' # index => queryStore' = << >>]_vars

\* ========================================================================
\* Properties of rerank_chunks (checked under SpecRerank)
\* ========================================================================

\* Passage a of the output is passage b of the input: scores apart, nothing
\* of it has changed.
SamePassage(a, b) ==
    /\ a.chunk_id = b.chunk_id
    /\ a.text = b.text
    /\ a.similarity_score = b.similarity_score

\* Every passage of out is a passage of inp, and none comes twice.
OnlyInputOnce(out, inp) ==
    /\ \A i \in 1..Len(out) : \E j \in 1..Len(inp) : SamePassage(out[i], inp[j])
    /\ \A i, j \in 1..Len(out) : out[i].chunk_id = out[j].chunk_id => i = j

\* out holds exactly the passages of inp, each once.
ExactlyInput(out, inp) == OnlyInputOnce(out, inp) /\ Len(out) = Len(inp)

\* The query has a word longer than one character.
HasToken(query) == \E i \in 1..Len(query) : Len(query[i]) > 1

\* The order rerank gives the passages when no top_n cuts it.
Reordering(args, inp) ==
    RerankChunks(args.query, inp, NoTopN, args.vector_weight,
                 args.keyword_weight).result

RerankOrder ==
    [][(rr_out'.returned /\ Len(rr_chunks) >= 2 /\ HasToken(rr_args.query)) =>
        LET out == rr_out'.result
        IN /\ \A i \in 1..Len(out) :
                /\ out[i].original_rank \in 1..Len(rr_chunks)
                /\ SamePassage(out[i], rr_chunks[out[i].original_rank])
           /\ \A i, j \in 1..Len(out) :
                i < j =>
                    \/ out[i].rerank_score > out[j].rerank_score
                    \/ /\ out[i].rerank_score = out[j].rerank_score
                       /\ out[i].original_rank < out[j].original_rank
    ]_vars

\* Two passages of equal score came out behind one that stood after them.
RerankOrderWitness ==
    /\ rr_out.returned
    /\ Len(rr_out.result) = 3
    /\ HasToken(rr_args.query)
    /\ rr_out.result[1].original_rank = 3
    /\ rr_out.result[2].rerank_score = rr_out.result[3].rerank_score
    /\ rr_out.result[2].rerank_score > 0

RerankScoreBounds ==
    (rr_out.returned /\ Len(rr_chunks) >= 2) =>
        \A i \in 1..Len(rr_out.result) :
            LET p == rr_out.result[i]
            IN /\ "rerank_score" \in DOMAIN p =>
                    p.rerank_score >= 0 /\ p.rerank_score <= Scale
               /\ "keyword_score" \in DOMAIN p =>
                    p.keyword_score >= 0 /\ p.keyword_score <= Scale

\* A passage whose keyword score reached the clamp, under keyword weight 1.
RerankScoreBoundsWitness ==
    /\ rr_out.returned
    /\ rr_args.keyword_weight = Scale
    /\ \E i \in 1..Len(rr_out.result) :
          /\ "keyword_score" \in DOMAIN rr_out.result[i]
          /\ rr_out.result[i].keyword_score = Scale
          /\ rr_out.result[i].rerank_score = Scale
    /\ \E i \in 1..Len(rr_out.result) :
          /\ "keyword_score" \in DOMAIN rr_out.result[i]
          /\ rr_out.result[i].keyword_score = 0

\* ========================================================================
\* Properties of query_documents (checked under SpecQuery)
\* ========================================================================

\* C12: a query with verify = true is never answered from the query cache
\* and never writes to it, whatever skip_cache is and whatever the cache
\* holds under its key: the tier is as it was, and an answer it returns was
\* generated and verified in this call.
VerifyBypassesCache ==
    [][(nqueries' # nqueries /\ qlog'.req.verify) =>
        /\ ~qlog'.from_cache
        /\ queryStore' = queryStore
        /\ qlog'.response.kind = "answer" =>
              /\ qlog'.generated # << >>
              /\ qlog'.verified # << >>
              /\ qlog'.response.verified
    ]_vars

\* A verified answer was returned while the cache held an unverified one
\* for the same question, and skip_cache was not set.
VerifyBypassesCacheWitness ==
    /\ nqueries = 2
    /\ qlog.req.verify
    /\ ~qlog.req.skip_cache
    /\ qlog.response.kind = "answer"
    /\ qlog.response.verified
    /\ Len(queryStore) = 1
    /\ queryStore[1].key = BuildQueryKey(qlog.req.query, qlog.req)
    /\ ~queryStore[1].value.verified

\* C13: when the search returns no passage, query_documents returns the
\* fixed no-relevant-documents response, whose source list is empty, and
\* calls neither generate_answer nor verify_answer, whatever rerank and
\* verify are.
NoPassagesNoGeneration ==
    (nqueries > 0 /\ ~qlog.from_cache /\ Search(index, qlog.req) = << >>) =>
        /\ qlog.generated = << >>
        /\ qlog.verified = << >>
        /\ ~qlog.raised =>
              /\ qlog.response = NoDocumentsResponse
              /\ qlog.response.sources = << >>

\* A re-ranked, verified query scoped to a document without chunks got the
\* fixed response, on an index that holds chunks of another document.
NoPassagesNoGenerationWitness ==
    /\ nqueries > 0
    /\ index # {}
    /\ qlog.req.rerank
    /\ qlog.req.verify
    /\ qlog.req.document_id # NoDoc
    /\ ~qlog.raised
    /\ qlog.response.kind = "no_documents"

\* C14: whatever the query text, rerank, top_k and the number of indexed
\* chunks, the passages passed to generation and listed as sources are at
\* most top_k.
PassagesAtMostTopK ==
    nqueries > 0 =>
        /\ Len(qlog.response.sources) <= qlog.req.top_k
        /\ \A i \in 1..Len(qlog.generated) :
              Len(qlog.generated[i]) <= qlog.req.top_k

\* ------------------------------------------------------------------------
\* Properties of the tier under requests in flight (checked under SpecLoop)
\* ------------------------------------------------------------------------

\* The requests that are inside a method of the tier.
InMethod == {t \in TaskIds : tasks[t].op # "none"}

\* The method that has just returned did what the method does when nothing else
\* touches the tier between its first statement and its last.
CompletedAtomically ==
    LET c == completed
    IN CASE c.op = "get" ->
              /\ c.end = TTLGet(c.begin, c.key, c.at).store
              /\ c.value = TTLGet(c.begin, c.key, c.at).value
         [] c.op = "set" ->
              /\ c.end = TTLSet(c.begin, c.key, LoopValue, 0, c.at, max_keys,
                                default_ttl).store
              /\ \E i \in 1..Len(c.end) :
                    c.end[i].key = c.key /\ c.end[i].value = LoopValue
         [] c.op = "delete" -> c.end = TTLDelete(c.begin, c.key)
         [] c.op = "flush" -> c.end = TTLFlush(c.begin)
         [] c.op = "size" ->
              /\ c.end = TTLSize(c.begin, c.at).store
              /\ c.size = TTLSize(c.begin, c.at).value
         [] OTHER -> TRUE

\* C16: with several requests in flight, the operations on a tier do not
\* interleave: at most one request is inside a method of the tier, the
\* store a method works on is the one it left at its previous statement,
\* the iteration of the expired sweep sees a dict of the size it began
\* with, no method raises, and every method that returns has done what it
\* does alone (a set leaves its key in the store).
TierOpsAtomic ==
    /\ Cardinality(InMethod) <= 1
    /\ fault = None
    /\ \A t \in InMethod : tasks[t].pc = "iter" => Len(store) = tasks[t].n0
    /\ CompletedAtomically

\* A set at capacity that swept an expired entry has returned while another
\* request stands at its await.
TierOpsAtomicWitness ==
    /\ completed.op = "set"
    /\ Len(completed.begin) >= max_keys
    /\ ExpiredKeys(completed.begin, completed.at) # {}
    /\ \E t \in TaskIds : t # completed.task /\ tasks[t].pc = "executor"

\* ------------------------------------------------------------------------
\* Properties of the confidence object (checked under SpecParse)
\* ------------------------------------------------------------------------

Levels == {"very_low", "low", "medium", "high", "very_high", "unknown"}

\* C21: the confidence object of every query response, parsed from the
\* answer of the backend or produced by the short-circuit of a query that
\* retrieved nothing, has a score in 1..10 or none, and one of the six
\* levels.
ConfidenceInRange ==
    parsed.done =>
        /\ parsed.confidence.score = NoScore \/ parsed.confidence.score \in 1..10
        /\ parsed.confidence.level \in Levels

\* The level the annotation X stands for.
LevelOf(x) ==
    CASE x >= 9 -> "very_high"
      [] x >= 7 /\ x < 9 -> "high"
      [] x >= 5 /\ x < 7 -> "medium"
      [] x >= 3 /\ x < 5 -> "low"
      [] OTHER -> "very_low"

\* C22: when an annotation with the integer X ends the text (only
\* whitespace follows it), parse_confidence returns the text before the
\* annotation, score X and the level of X; when no annotation ends the text
\* it returns the text as it is, no score and level unknown.
ParsesTrailingAnnotation ==
    parsed.done /\ parsed.source = "generated" =>
        LET j == LastNonSpace(raw_answer)
        IN IF j # 0 /\ raw_answer[j].kind = "annotation"
           THEN /\ parsed.answer = Strip(SubSeq(raw_answer, 1, j - 1))
                /\ parsed.confidence.score = IntOf(raw_answer[j].digits)
                /\ parsed.confidence.level = LevelOf(IntOf(raw_answer[j].digits))
           ELSE /\ parsed.answer = raw_answer
                /\ parsed.confidence = Confidence(NoScore, "unknown")

\* ------------------------------------------------------------------------
\* Properties of chunk_text (checked under SpecChunk)
\* ------------------------------------------------------------------------

\* chunk_text has returned for a chunk size of at least 1 and an overlap from
\* 0 up to below the size.
ChunkedInRange ==
    /\ ck_out.op = "chunk_text"
    /\ ck_args.chunk_size >= 1
    /\ ck_args.chunk_overlap >= 0
    /\ ck_args.chunk_overlap < ck_args.chunk_size

\* The sentences a chunk adds to the chunks before it: those behind its
\* overlap seed; a force-split sentence counts with its first piece, and
\* what was joined behind a piece counts with that piece.
NewSentences(c) ==
    IF c.piece = 0 THEN SubSeq(c.sentences, c.seed + 1, Len(c.sentences))
    ELSE IF c.piece = 1 THEN c.sentences
    ELSE Tail(c.sentences)

RECURSIVE SentencesRead(_)
SentencesRead(chunks) ==
    IF chunks = << >> THEN << >>
    ELSE NewSentences(Head(chunks)) \o SentencesRead(Tail(chunks))

\* C23: reading the chunks in order and ignoring the overlap seed at the
\* head of each chunk yields the sentence sequence of the text: every
\* sentence once, in order.
ChunksReadAsText ==
    ChunkedInRange =>
        SentencesRead(ck_out.chunks)
            = [i \in 1..Len(SplitIntoSentences(ck_args.text)) |-> i]

\* The text a chunk repeats from the end of the chunk before it.
SeedText(c) ==
    JoinAt(SubSeq(c.sentences, 1, c.seed), SplitIntoSentences(ck_args.text))

\* C24: for 0 <= chunkOverlap < chunkSize, the text a chunk repeats from the
\* end of the preceding chunk is at most chunkOverlap characters long,
\* except between the pieces of a force-split sentence.
OverlapAtMostConfigured ==
    ChunkedInRange =>
        \A k \in 2..Len(ck_out.chunks) :
            ck_out.chunks[k].piece = 0 =>
                Len(SeedText(ck_out.chunks[k])) <= ck_args.chunk_overlap

\* C25: for chunkOverlap < chunkSize, every chunk chunk_text returns is at
\* most chunkSize characters long.
ChunkAtMostSize ==
    ChunkedInRange =>
        \A k \in 1..Len(ck_out.chunks) :
            Len(ck_out.chunks[k].text) <= ck_args.chunk_size

\* C26: for chunkSize >= 1 and any overlap >= chunkSize, chunk_text returns
\* the chunk sequence it returns for the overlap floor(0.2 * chunkSize), and
\* does not fail.
ClampedOverlapEquivalent ==
    /\ ck_out.op = "chunk_text"
    /\ ck_args.chunk_size >= 1
    /\ ck_args.chunk_overlap >= ck_args.chunk_size
    => /\ ~ck_out.raised
       /\ ck_out.chunks = ChunkText(ck_args.text, ck_args.chunk_size,
                                    ck_args.chunk_size \div 5)

\* chunk_text has returned, for an overlap above the size, chunks of which
\* one starts with an overlap seed.
ClampedOverlapWitness ==
    /\ ck_out.op = "chunk_text"
    /\ ck_args.chunk_size >= 1
    /\ ck_args.chunk_overlap > ck_args.chunk_size
    /\ \E k \in 1..Len(ck_out.chunks) : ck_out.chunks[k].seed > 0

\* C28: when the extracted text yields no chunk, ingest_document fails and
\* changes neither the index nor a cache tier; a text with a character that
\* is not whitespace yields a chunk, from chunk_text and in ingest_document.
NoChunksNoIngest ==
    /\ [](ck_out.op # "none" /\ (\E i \in 1..Len(ck_args.text) : ck_args.text[i] # SpaceChar)
            => ck_out.chunks # << >>)
    /\ [][ck_out'.op = "ingest" /\ ck_out'.chunks = << >>
            => /\ ck_out'.raised
               /\ UNCHANGED <<index, queryStore, embStore>>]_vars

\* ingest_document has failed on a text of spaces, with a document in the
\* index and entries in the caches.
NoChunksNoIngestWitness ==
    /\ ck_out.op = "ingest"
    /\ ck_out.raised
    /\ ck_args.text # << >>
    /\ ck_out.chunks = << >>
    /\ index # {} /\ queryStore # << >> /\ embStore # << >>

\* ------------------------------------------------------------------------
\* Properties of the loops of chunk_text (checked under SpecChunkLoop)
\* ------------------------------------------------------------------------

\* chunk_text returns, with what the function computes as a whole.
ChunkTextReturns ==
    <>(/\ ck_run.pc = "done"
       /\ ck_out.chunks = ChunkText(ck_args.text, ck_args.chunk_size,
                                    ck_args.chunk_overlap))

\* The chunk the buffered sentences make is the last chunk before the pieces
\* of the long sentence.
BufferBeforePieces ==
    [][ck_run.pc = "loop" /\ ck_run'.pc = "split" /\ ck_run.b.current_chunk # << >>
          => ck_run'.b.chunks
                = Append(ck_run.b.chunks,
                         Chunk(JoinAt(ck_run.b.current_chunk, RunSentences),
                               ck_run.b.current_chunk, ck_run.b.seed, 0))]_vars

\* max(a, b).
Max(a, b) == IF a >= b THEN a ELSE b

\* C27 as stated: chunk_text terminates for every text and every integer
\* chunkSize and chunkOverlap; a turn of the force-split advances by
\* max(chunkSize - overlap, 1) >= 1 characters, chunkSize and overlap being
\* the size and the overlap chunk_text works with; the buffered content is
\* emitted as a chunk of its own before the pieces.
ForceSplitAdvancesBySize ==
    /\ ChunkTextReturns
    /\ BufferBeforePieces
    /\ [][ck_run.pc = "split" /\ ck_run'.pc = "split"
            => /\ ck_run'.start - ck_run.start = Max(RunSize - RunOverlap, 1)
               /\ ck_run'.start - ck_run.start >= 1]_vars

\* C27, amended: the same, the force-split taking 500 for a chunkSize of 0
\* or less.
ForceSplitAdvances ==
    /\ ChunkTextReturns
    /\ BufferBeforePieces
    /\ [][ck_run.pc = "split" /\ ck_run'.pc = "split"
            => /\ ck_run'.start - ck_run.start
                    = Max((IF RunSize <= 0 THEN FallbackSize ELSE RunSize) - RunOverlap, 1)
               /\ ck_run'.start - ck_run.start >= 1]_vars

\* The force-split of a sentence has made its second piece, behind the
\* chunk of the sentences that were buffered.
ForceSplitAdvancesWitness ==
    /\ ck_run.pc = "split"
    /\ ck_run.made >= 2
    /\ \E k \in 1..Len(ck_run.b.chunks) : ck_run.b.chunks[k].piece = 0

\* ------------------------------------------------------------------------
\* Properties of compare_documents (checked under SpecCompare)
\* ------------------------------------------------------------------------

\* The index holds no chunk of the n-th document of the request: with
\* top_k >= 1 its retrieval is empty exactly then.
NothingStored(n) == \A c \in index : c.doc # cmp_args.document_ids[n]

\* C29: when both retrievals of a compare request are empty,
\* compare_documents returns the fixed empty-comparison result with empty
\* source lists and makes no chat_completion call; when one of them is not
\* empty it makes exactly one chat_completion call.
EmptyCompareSkipsGeneration ==
    cmp_out.done =>
        IF NothingStored(1) /\ NothingStored(2)
        THEN /\ cmp_out.calls = 0
             /\ cmp_out.raised = "none"
             /\ cmp_out.result =
                    CompareResult(EmptyComparison(cmp_args.structured),
                                  cmp_args.structured, << >>, << >>,
                                  cmp_args.topic, cmp_args.document_ids)
        ELSE cmp_out.calls = 1

\* A structured compare of two documents the index does not hold, while it
\* holds another, has returned the fixed result.
EmptyCompareWitness ==
    /\ cmp_out.done
    /\ cmp_args.structured
    /\ index # {}
    /\ NothingStored(1)
    /\ NothingStored(2)
    /\ cmp_out.calls = 0
    /\ cmp_out.result.comparison.kind = "empty"

\* The text holds a JSON object, alone or fenced, whose metadata is absent
\* or an object: the text the structured result can be made of.
UsableText(text) ==
    \E v \in JsonValues :
        /\ v.json = "object"
        /\ v.metadata \in {"absent", "object"}
        /\ text \in {<<v>>, <<FenceOpen, v, FenceClose>>}

\* C30: a structured compare that called the backend and got a text back
\* returns and does not raise, whatever the text; when the text cannot be
\* used as the structured result, it returns the skeleton with the text
\* under rawComparison.
StructuredCompareNeverRaises ==
    (/\ cmp_out.done
     /\ cmp_args.structured
     /\ ~cmp_args.backend.raises
     /\ ~(NothingStored(1) /\ NothingStored(2)))
        => /\ cmp_out.raised = "none"
           /\ ~UsableText(cmp_args.backend.text) =>
                 /\ cmp_out.result.comparison.kind = "skeleton"
                 /\ cmp_out.result.comparison.rawComparison = cmp_args.backend.text

\* ------------------------------------------------------------------------
\* Properties of the verified query (checked under SpecVerify)
\* ------------------------------------------------------------------------

\* C31: a query with verify = true that retrieved something and whose
\* verification call got a text back returns a response carrying a
\* verification result and does not raise, whatever the text.
VerifyNeverRaises ==
    (/\ vf_out.done
     /\ vf_args.req.verify
     /\ Search(index, vf_args.req) # << >>
     /\ ~vf_args.backend.raises)
        => /\ vf_out.raised = "none"
           /\ vf_out.response.verified
           /\ vf_out.verification.kind # "none"

\* ------------------------------------------------------------------------
\* Properties of generate_embeddings_batched (checked under SpecEmbed)
\* ------------------------------------------------------------------------

\* The texts the generator was called with, over all its calls.
SentToGenerator == UNION {Range(eb_out.batches[k]) : k \in 1..Len(eb_out.batches)}

\* C32: generate_embeddings_batched returns a list as long as texts whose
\* i-th element is the embedding of texts[i]; the generator is called only
\* with texts that missed the cache, at most batch_size of them at a time,
\* and every generated embedding is in the embedding cache afterwards.
BatchedEmbeddingsInOrder ==
    (eb_out.done /\ ~eb_out.raised) =>
        /\ Len(eb_out.results) = Len(eb_args.texts)
        /\ \A i \in 1..Len(eb_args.texts) :
              eb_out.results[i] = EmbeddingVector(eb_args.texts[i])
        /\ \A k \in 1..Len(eb_out.batches) :
              /\ Len(eb_out.batches[k]) \in 1..eb_args.batch_size
              /\ \A j \in 1..Len(eb_out.batches[k]) :
                    eb_args.cached[eb_out.batches[k][j]] # "fresh"
        /\ \A text \in SentToGenerator :
              \E e \in 1..Len(embStore) :
                 /\ embStore[e].key = EmbeddingKey(text)
                 /\ embStore[e].value = EmbeddingVector(text)
                 /\ ~IsExpired(embStore[e].exp, now)

\* A list with a text twice, a cached text and an expired one, generated in
\* more than one batch, has been embedded.
BatchedEmbeddingsWitness ==
    /\ eb_out.done
    /\ ~eb_out.raised
    /\ Len(eb_out.batches) >= 2
    /\ \E i, j \in 1..Len(eb_args.texts) :
          i < j /\ eb_args.texts[i] = eb_args.texts[j]
                /\ eb_args.cached[eb_args.texts[i]] # "fresh"
    /\ \E i \in 1..Len(eb_args.texts) : eb_args.cached[eb_args.texts[i]] = "fresh"

\* ------------------------------------------------------------------------
\* Properties of create_chunk_metadata (checked under SpecMetadata)
\* ------------------------------------------------------------------------

\* C37: for a chunk list of length n, create_chunk_metadata returns n
\* records, the k-th for the k-th chunk with chunk_index k - 1, so that the
\* indexes are 0..n-1 each once and in order; every record has
\* total_chunks = n and the document_id of the call, and no two records
\* share a chunk_id.
ChunkIndexesDense ==
    md_out.done =>
        LET n == Len(md_args.chunks)
            records == md_out.records
        IN /\ Len(records) = n
           /\ \A k \in 1..n :
                 /\ records[k].chunk_index = k - 1
                 /\ records[k].text = md_args.chunks[k]
                 /\ records[k].total_chunks = n
                 /\ records[k].document_id = md_args.document_id
           /\ {records[k].chunk_index : k \in 1..n} = 0..(n - 1)
           /\ \A j, k \in 1..n : j # k => records[j].chunk_id # records[k].chunk_id

\* The records of a document of several chunks, two of them alike, have been
\* made.
ChunkIndexesWitness ==
    /\ md_out.done
    /\ Len(md_out.records) >= 3
    /\ \E j, k \in 1..Len(md_args.chunks) :
          j # k /\ md_args.chunks[j] = md_args.chunks[k]

\* ------------------------------------------------------------------------
\* Properties of rerank_chunks on short lists (checked under SpecRerank)
\* ------------------------------------------------------------------------

\* C36: rerank_chunks returns an empty list for an empty list, and for a
\* single passage that passage with rerank_score equal to its
\* similarity_score and original_rank 1, whatever the query and top_n.
RerankShortLists ==
    [][(~rr_out.returned /\ rr_out'.returned /\ Len(rr_chunks) <= 1)
          => /\ Len(rr_out'.result) = Len(rr_chunks)
             /\ Len(rr_chunks) = 1 =>
                   /\ rr_out'.result[1].chunk_id = rr_chunks[1].chunk_id
                   /\ rr_out'.result[1].text = rr_chunks[1].text
                   /\ rr_out'.result[1].similarity_score
                         = rr_chunks[1].similarity_score
                   /\ rr_out'.result[1].rerank_score
                         = rr_chunks[1].similarity_score
                   /\ rr_out'.result[1].original_rank = 1]_vars

\* A single passage has come back from a call with a query without a word
\* and a top_n.
RerankShortListsWitness ==
    /\ rr_out.returned
    /\ Len(rr_chunks) = 1
    /\ Len(rr_out.result) = 1
    /\ rr_args.query = << >>
    /\ rr_args.top_n = 1
    /\ rr_out.result[1].similarity_score # Scale

\* ------------------------------------------------------------------------
\* Failure and frame properties of the tier (checked under SpecCache)
\* ------------------------------------------------------------------------

\* C35: for every default_ttl >= 0 and max_keys >= 0 and every sequence of
\* get, set, delete, flush and size with any clock advance, no operation
\* raises, and a get of a key that has no unexpired entry returns absent.
CacheNeverRaises ==
    /\ [](~last.raised)
    /\ [][(last'.op = "get"
             /\ \A i \in LiveAt(store, now) : store[i].key # last'.key)
            => last'.result = None]_vars

\* C40: a set on a key that is stored, in a tier holding max_keys unexpired
\* entries, leaves the set of stored keys as it was.
CacheUpdateKeepsKeys ==
    [][(/\ last'.op = "set"
        /\ last'.key \in StoreKeys(store)
        /\ Len(store) = max_keys
        /\ LiveAt(store, now) = 1..Len(store))
          => StoreKeys(store') = StoreKeys(store)]_vars

\* ------------------------------------------------------------------------
\* Properties of a session that changes one argument at a time (SpecAsk)
\* ------------------------------------------------------------------------

\* C33: a query scoped to a document returns only sources of that document,
\* whether its response is built or comes from the query cache, whatever the
\* scopes of the earlier queries with the same text and top_k.
ScopedSourcesOnly ==
    qlog.req.document_id # NoDoc =>
        \A i \in 1..Len(qlog.response.sources) :
            qlog.response.sources[i].document_id = qlog.req.document_id

\* A scoped query is answered from the cache with sources, while the cache
\* holds the response of the same question in another scope.
ScopedSourcesWitness ==
    /\ qlog.req.document_id # NoDoc
    /\ qlog.from_cache
    /\ qlog.response.sources # << >>
    /\ \E i \in 1..Len(queryStore) :
          /\ queryStore[i].key.document_id # qlog.req.document_id
          /\ queryStore[i].value.sources # << >>
          /\ \E j \in 1..Len(queryStore[i].value.sources) :
                queryStore[i].value.sources[j].document_id # qlog.req.document_id

\* The last call was answered from the query cache, without a call of the
\* embedding generator, the index or the generation backend.
AnsweredFromCache ==
    /\ qlog.from_cache
    /\ ~qlog.embedded
    /\ ~qlog.searched
    /\ ~qlog.generated

\* C34 as stated: once a query with verify = false and skip_cache = false
\* and a non-empty retrieval has completed, every later query with the same
\* (query, top_k, document_id, rerank) is answered from the query cache
\* without a call of the embedding generator, the index or the generation
\* backend.
RepeatServedFromCache ==
    [][(nqueries' # nqueries /\ qlog'.req.document_id \in answered)
          => AnsweredFromCache']_vars

\* C34, amended: the same of every later query with the same key that does
\* not itself ask for verification.
UnverifiedRepeatServedFromCache ==
    [][(nqueries' # nqueries /\ qlog'.req.document_id \in answered
          /\ ~qlog'.req.verify)
          => AnsweredFromCache']_vars

\* The question is answered from the cache after a call in another scope
\* came between it and the call that built the response.
UnverifiedRepeatWitness ==
    /\ nqueries = MaxAsks
    /\ qlog.req.document_id = asked.document_id
    /\ ~qlog.req.verify
    /\ AnsweredFromCache
    /\ qlog.response.kind = "answer"
    /\ \E i \in 1..Len(queryStore) :
          /\ queryStore[i].key.document_id # asked.document_id
          /\ i > 1

\* C38: a response served from the query cache is one computed for the
\* include_metadata and the temperature of the request it is served to: its
\* sources carry the preview exactly when the request asks for it, and its
\* answer was generated at the temperature of the request.
CachedResponseFitsRequest ==
    qlog.from_cache =>
        /\ \A i \in 1..Len(qlog.response.sources) :
              qlog.response.sources[i].has_preview = qlog.req.include_metadata
        /\ qlog.response.answer.temperature =
              EffectiveTemperature(qlog.req.temperature)

\* C39: a response with reranked = true has rerank_score and original_rank
\* in every source.
RerankedSourcesScored ==
    qlog.response.reranked =>
        \A i \in 1..Len(qlog.response.sources) :
            qlog.response.sources[i].has_rerank_score

====
